---------------------------- MODULE Spec2Model ----------------------------
(***************************************************************************)
(* Transport-Planner: the destination indexing and route-optimisation      *)
(* engine of src/destinations.js (Trie, PriorityQueue, Graph with          *)
(* Dijkstra, DestinationHashMap, mergeSort, simpleStringMatch and the      *)
(* public search / filter / route functions built on them).                *)
(*                                                                         *)
(* Conventions.                                                            *)
(*  - JavaScript arrays are sequences; a 0-based index i of the source is  *)
(*    position i + 1 here.                                                 *)
(*  - A JavaScript string is the sequence of its characters, so that       *)
(*    toLowerCase, includes, charCodeAt and the trie's per-character walk  *)
(*    are computed, not assumed.                                           *)
(*  - Numbers are exact: an edge cost is kept in halves of a currency unit *)
(*    (the rates 8, 2, 1.5, 3, 5 become 16, 4, 3, 6, 10) and a traversal   *)
(*    distance in fifths of a distance unit (weight * 0.8 becomes          *)
(*    4 * weight, weight becomes 5 * weight).                              *)
(*  - null is the value Null; a Map without an entry for a key is a        *)
(*    function without that key in its DOMAIN (Infinity for distances,     *)
(*    null for previous).                                                  *)
(***************************************************************************)
EXTENDS Integers, Sequences, FiniteSets, TLC

VARIABLES
    heap,           \* PriorityQueue.heap of the queue under test
    compare,        \* PriorityQueue.compare, by name (see Compare)
    adjacencyList,  \* Graph.adjacencyList: vertex -> sequence of edge records
    buckets,        \* DestinationHashMap.buckets
    size,           \* DestinationHashMap.size
    root,           \* Trie.root: path from the root -> TrieNode
    destinationsData, \* the destination table, in list order
    call,           \* the last public call made and the value it returned
    apiService,     \* window.apiService: its config, its cache, its calls in flight
    planner,        \* the TransportPlanner instance and the page sections it renders
    now,            \* Date.now(), in milliseconds
    added,          \* history: the segments added and not removed, as the user acted
    history,        \* history: the calls made on the queue whose items are counted
    caches          \* the Maps searchCache and destinationCache of src/script.js

vars == <<heap, compare, adjacencyList, buckets, size, root, destinationsData, call,
          apiService, planner, now, added, history, caches>>

\* null where a string is expected (a vertex, a mode) and where an object is.
Null == "null"
NullObject == [null |-> TRUE]

NoCall == [op |-> "none"]

(***************************************************************************)
(* Bounds of the model.                                                    *)
(***************************************************************************)
MaxHeap == 4        \* items held by the queue under test
MaxPriority == 3    \* priorities 1..MaxPriority
MaxEdges == 3       \* addEdge calls on the graph under test
MaxWeight == 2      \* edge weights 0..MaxWeight
MaxOps == 5         \* calls recorded on the queue under test

(***************************************************************************)
(* Small helpers on sequences.                                             *)
(***************************************************************************)
Range(s) == {s[i] : i \in 1..Len(s)}

RECURSIVE SumSeq(_)
SumSeq(s) == IF s = <<>> THEN 0 ELSE Head(s) + SumSeq(Tail(s))

Min(a, b) == IF a <= b THEN a ELSE b

(***************************************************************************)
(* 2. PRIORITY QUEUE (src/destinations.js 69-121)                          *)
(***************************************************************************)
\* The three comparators the program constructs queues with.
Compare(cmp, a, b) ==
    CASE cmp = "priorityAsc"  -> a.priority - b.priority   \* default, line 70
      [] cmp = "priorityDesc" -> b.priority - a.priority   \* lines 1209, 1320
      [] cmp = "distanceAsc"  -> a.distance - b.distance   \* line 167

Swap(h, i, j) == [h EXCEPT ![i + 1] = h[j + 1], ![j + 1] = h[i + 1]]

\* A mutant of HeapifyUp: the pushed item moves up one level at most.
HeapifyUpOnce(cmp, h, index) ==
    LET parentIndex == (index - 1) \div 2 IN
    IF parentIndex >= 0 /\ Compare(cmp, h[index + 1], h[parentIndex + 1]) < 0
    THEN Swap(h, index, parentIndex)
    ELSE h

RECURSIVE HeapifyUp(_, _, _)
HeapifyUp(cmp, h, index) ==
    LET parentIndex == (index - 1) \div 2 IN
    IF parentIndex >= 0 /\ Compare(cmp, h[index + 1], h[parentIndex + 1]) < 0
    THEN HeapifyUp(cmp, Swap(h, index, parentIndex), parentIndex)
    ELSE h

\* A mutant of HeapifyDown: the right child is never looked at.
RECURSIVE HeapifyDownLeftOnly(_, _, _)
HeapifyDownLeftOnly(cmp, h, index) ==
    LET leftChild == 2 * index + 1
        smallest == IF leftChild < Len(h) /\ Compare(cmp, h[leftChild + 1], h[index + 1]) < 0
                    THEN leftChild ELSE index
    IN  IF smallest # index
        THEN HeapifyDownLeftOnly(cmp, Swap(h, index, smallest), smallest)
        ELSE h

RECURSIVE HeapifyDown(_, _, _)
HeapifyDown(cmp, h, index) ==
    LET leftChild == 2 * index + 1
        rightChild == 2 * index + 2
        s1 == IF leftChild < Len(h) /\ Compare(cmp, h[leftChild + 1], h[index + 1]) < 0
              THEN leftChild ELSE index
        smallest == IF rightChild < Len(h) /\ Compare(cmp, h[rightChild + 1], h[s1 + 1]) < 0
                    THEN rightChild ELSE s1
    IN  IF smallest # index
        THEN HeapifyDown(cmp, Swap(h, index, smallest), smallest)
        ELSE h

\* enqueue: push, then sift up from the last index.
Enqueued(cmp, h, item) == HeapifyUp(cmp, Append(h, item), Len(h))

\* A mutant of Dequeued: the popped last item is dropped instead of being
\* moved to the root.
DequeuedRootKept(cmp, h) ==
    IF Len(h) = 0 THEN [item |-> NullObject, heap |-> h]
    ELSE IF Len(h) = 1 THEN [item |-> h[1], heap |-> <<>>]
    ELSE [item |-> h[1], heap |-> HeapifyDown(cmp, SubSeq(h, 1, Len(h) - 1), 0)]

\* dequeue: the pair (returned item, heap afterwards).
Dequeued(cmp, h) ==
    IF Len(h) = 0 THEN [item |-> NullObject, heap |-> h]
    ELSE IF Len(h) = 1 THEN [item |-> h[1], heap |-> <<>>]
    ELSE LET last == h[Len(h)]
             rest == SubSeq(h, 1, Len(h) - 1)
         IN  [item |-> h[1],
              heap |-> HeapifyDown(cmp, [rest EXCEPT ![1] = last], 0)]

\* Repeatedly dequeuing until the queue is empty: the items in the order returned.
RECURSIVE DrainAll(_, _)
DrainAll(cmp, h) ==
    IF Len(h) = 0 THEN <<>>
    ELSE LET d == Dequeued(cmp, h) IN <<d.item>> \o DrainAll(cmp, d.heap)

(***************************************************************************)
(* 3. GRAPH (src/destinations.js 124-231)                                  *)
(***************************************************************************)
EmptyMap == [x \in {} |-> Null]

\* Map.set(key, value)
Put(m, key, value) == [x \in DOMAIN m \cup {key} |-> IF x = key THEN value ELSE m[x]]

\* NaN, where a cost is expected: costs are in halves of a currency unit and
\* those of non-negative weights are never below 0.
NaN == -1

\* The names costPerKm, an object literal, inherits from Object.prototype:
\* costPerKm[name] is a function or an object for them, and not undefined.
ObjectPrototypeKeys ==
    {"constructor", "__proto__", "hasOwnProperty", "isPrototypeOf",
     "propertyIsEnumerable", "toLocaleString", "toString", "valueOf",
     "__defineGetter__", "__defineSetter__", "__lookupGetter__", "__lookupSetter__"}

\* (costPerKm[mode] || 5) * distance, in halves of a currency unit: a function
\* or an object times a number is NaN.
calculateCost(mode, distance) ==
    IF mode \in ObjectPrototypeKeys THEN NaN
    ELSE (CASE mode = "flight" -> 16
            [] mode = "train"  -> 4
            [] mode = "bus"    -> 3
            [] mode = "car"    -> 6
            [] OTHER           -> 10) * distance

\* A mutant of addVertex: the list is set without asking whether the vertex
\* is there.
addVertexAlwaysSet(adj, vertex) == Put(adj, vertex, <<>>)

addVertex(adj, vertex) ==
    IF vertex \in DOMAIN adj THEN adj ELSE Put(adj, vertex, <<>>)

EdgeRecord(to, weight, mode) ==
    [destination |-> to, weight |-> weight, mode |-> mode,
     cost |-> calculateCost(mode, weight)]

\* A mutant of addEdge: the record on the list of vertex2 is not pushed.
addEdgeOneWay(adj, vertex1, vertex2, weight, mode) ==
    LET a0 == addVertex(addVertex(adj, vertex1), vertex2)
    IN  [a0 EXCEPT ![vertex1] = Append(@, EdgeRecord(vertex2, weight, mode))]

addEdge(adj, vertex1, vertex2, weight, mode) ==
    LET a0 == addVertex(addVertex(adj, vertex1), vertex2)
        a1 == [a0 EXCEPT ![vertex1] = Append(@, EdgeRecord(vertex2, weight, mode))]
    IN  [a1 EXCEPT ![vertex2] = Append(@, EdgeRecord(vertex1, weight, mode))]

\* A mutant of TraversalWeight: the preferred mode gets no bonus.
TraversalWeightNoBonus(neighbor, preferredMode) == 5 * neighbor.weight

\* A mutant of TraversalWeight: weight *= 0.6 for the preferred mode.
TraversalWeightSixTenths(neighbor, preferredMode) ==
    IF preferredMode # Null /\ neighbor.mode = preferredMode
    THEN 3 * neighbor.weight
    ELSE 5 * neighbor.weight

\* The traversal weight of an edge, in fifths: weight *= 0.8 for the preferred mode.
TraversalWeight(neighbor, preferredMode) ==
    IF preferredMode # Null /\ neighbor.mode = preferredMode
    THEN 4 * neighbor.weight
    ELSE 5 * neighbor.weight

\* A mutant of Shorter: a vertex is relaxed only the first time it is seen.
ShorterFirstSeenOnly(distance, distances, vertex) == vertex \notin DOMAIN distances

\* A mutant of Shorter: an equal distance relaxes the vertex again.
ShorterOrEqual(distance, distances, vertex) ==
    vertex \notin DOMAIN distances \/ distance <= distances[vertex]

\* distance < distances.get(vertex), where no entry means Infinity.
Shorter(distance, distances, vertex) ==
    vertex \notin DOMAIN distances \/ distance < distances[vertex]

\* The body of the for loop of lines 182-204 for one neighbour; st is the
\* triple (distances, previous, pq).
RelaxOne(neighbor, currentVertex, preferredMode, st) ==
    LET distance == st.distances[currentVertex] + TraversalWeight(neighbor, preferredMode)
    IN  IF Shorter(distance, st.distances, neighbor.destination)
        THEN [distances |-> Put(st.distances, neighbor.destination, distance),
              previous  |-> Put(st.previous, neighbor.destination,
                                [vertex |-> currentVertex,
                                 mode |-> neighbor.mode,
                                 cost |-> neighbor.cost]),
              pq |-> Enqueued("distanceAsc", st.pq,
                              [vertex |-> neighbor.destination,
                               distance |-> distance])]
        ELSE st

\* The for loop over the neighbours of currentVertex (lines 182-204), from
\* the k-th neighbour on.
RECURSIVE RelaxNeighbors(_, _, _, _, _)
RelaxNeighbors(nbrs, k, currentVertex, preferredMode, st) ==
    IF k > Len(nbrs) THEN st
    ELSE RelaxNeighbors(nbrs, k + 1, currentVertex, preferredMode,
                        RelaxOne(nbrs[k], currentVertex, preferredMode, st))

\* The while loop of findShortestPath (lines 177-205).
RECURSIVE DijkstraLoop(_, _, _, _)
DijkstraLoop(adj, end, preferredMode, st) ==
    IF Len(st.pq) = 0 THEN st
    ELSE
        LET d == Dequeued("distanceAsc", st.pq)
            currentVertex == d.item.vertex
            nbrs == IF currentVertex \in DOMAIN adj THEN adj[currentVertex] ELSE <<>>
        IN  IF currentVertex = end THEN [st EXCEPT !.pq = d.heap]
            ELSE DijkstraLoop(adj, end, preferredMode,
                    RelaxNeighbors(nbrs, 1, currentVertex, preferredMode,
                                   [st EXCEPT !.pq = d.heap]))

\* A mutant of ReconstructPath: totalCost = prev.cost instead of totalCost += prev.cost.
RECURSIVE ReconstructPathLastCost(_, _, _)
ReconstructPathLastCost(previous, current, acc) ==
    IF current = Null THEN acc
    ELSE IF current \in DOMAIN previous
         THEN LET prev == previous[current] IN
              ReconstructPathLastCost(previous, prev.vertex,
                  [path |-> <<[from |-> prev.vertex, to |-> current,
                               mode |-> prev.mode, cost |-> prev.cost]>> \o acc.path,
                   totalCost |-> prev.cost])
         ELSE acc

\* A mutant of ReconstructPath: path.push(hop) instead of path.unshift(hop).
RECURSIVE ReconstructPathPushed(_, _, _)
ReconstructPathPushed(previous, current, acc) ==
    IF current = Null THEN acc
    ELSE IF current \in DOMAIN previous
         THEN LET prev == previous[current] IN
              ReconstructPathPushed(previous, prev.vertex,
                  [path |-> Append(acc.path,
                                   [from |-> prev.vertex, to |-> current,
                                    mode |-> prev.mode, cost |-> prev.cost]),
                   totalCost |-> acc.totalCost + prev.cost])
         ELSE acc

\* _reconstructPath, from vertex current on; acc is (path, totalCost) so far.
RECURSIVE ReconstructPath(_, _, _)
ReconstructPath(previous, current, acc) ==
    IF current = Null THEN acc
    ELSE IF current \in DOMAIN previous
         THEN LET prev == previous[current] IN
              ReconstructPath(previous, prev.vertex,
                  [path |-> <<[from |-> prev.vertex, to |-> current,
                               mode |-> prev.mode, cost |-> prev.cost]>> \o acc.path,
                   totalCost |-> acc.totalCost + prev.cost])
         ELSE acc

\* A mutant of findShortestPath: every vertex but start begins with start as
\* its predecessor, by a free direct hop.
findShortestPathDirectDefault(adj, start, end, preferredMode) ==
    LET st0 == [distances |-> Put(EmptyMap, start, 0),
                previous  |-> [v \in DOMAIN adj \ {start} |->
                                  [vertex |-> start, mode |-> "flight", cost |-> 0]],
                pq        |-> Enqueued("distanceAsc", <<>>, [vertex |-> start, distance |-> 0])]
        st == DijkstraLoop(adj, end, preferredMode, st0)
    IN  ReconstructPath(st.previous, end, [path |-> <<>>, totalCost |-> 0])

findShortestPath(adj, start, end, preferredMode) ==
    LET st0 == [distances |-> Put(EmptyMap, start, 0),
                previous  |-> EmptyMap,
                pq        |-> Enqueued("distanceAsc", <<>>, [vertex |-> start, distance |-> 0])]
        st == DijkstraLoop(adj, end, preferredMode, st0)
    IN  ReconstructPath(st.previous, end, [path |-> <<>>, totalCost |-> 0])

(***************************************************************************)
(* Strings: a string is the sequence of its characters.                    *)
(***************************************************************************)
UpperCase == <<"A", "B", "C", "D", "E", "F", "G", "H", "I", "J", "K", "L", "M",
               "N", "O", "P", "Q", "R", "S", "T", "U", "V", "W", "X", "Y", "Z">>
LowerCase == <<"a", "b", "c", "d", "e", "f", "g", "h", "i", "j", "k", "l", "m",
               "n", "o", "p", "q", "r", "s", "t", "u", "v", "w", "x", "y", "z">>

IndexIn(alphabet, c) == CHOOSE i \in 1..Len(alphabet) : alphabet[i] = c

\* String.prototype.toLowerCase on the characters the model uses (letters, space).
ToLowerCase(str) ==
    [i \in 1..Len(str) |->
        IF str[i] \in Range(UpperCase) THEN LowerCase[IndexIn(UpperCase, str[i])]
        ELSE str[i]]

\* String.prototype.charCodeAt: the code of one character.
CharCode(c) ==
    IF c \in Range(UpperCase) THEN 64 + IndexIn(UpperCase, c)
    ELSE IF c \in Range(LowerCase) THEN 96 + IndexIn(LowerCase, c)
    ELSE 32

\* A mutant of Includes: only a match at the start counts (startsWith).
IncludesAtStartOnly(str, sub) ==
    Len(sub) <= Len(str) /\ SubSeq(str, 1, Len(sub)) = sub

\* String.prototype.includes
Includes(str, sub) ==
    \E i \in 0..(Len(str) - Len(sub)) : SubSeq(str, i + 1, i + Len(sub)) = sub

(***************************************************************************)
(* 1. TRIE (src/destinations.js 6-66)                                      *)
(* The tree is the map from a node's path (the characters from the root)   *)
(* to the node; children holds the node's child characters in the order    *)
(* they were created, which is the order for...in visits them.             *)
(***************************************************************************)
TrieNode == [children |-> <<>>, isEndOfWord |-> FALSE, destinationData |-> NullObject]

NewTrie == [p \in {<<>>} |-> TrieNode]

\* The for loop of insert, from the i-th character of word on.
RECURSIVE InsertWalk(_, _, _)
InsertWalk(t, word, i) ==
    IF i > Len(word) THEN t
    ELSE LET current == SubSeq(word, 1, i - 1)
             char == word[i]
         IN  IF char \in Range(t[current].children)
             THEN InsertWalk(t, word, i + 1)
             ELSE InsertWalk(
                     Put([t EXCEPT ![current].children = Append(@, char)],
                         Append(current, char), TrieNode),
                     word, i + 1)

\* A mutant of TrieInsert: the word is not lowercased.
TrieInsertCaseSensitive(t, destination, data) ==
    [InsertWalk(t, destination, 1) EXCEPT ![destination].isEndOfWord = TRUE,
                                          ![destination].destinationData = data]

\* A mutant of TrieInsert: a node that ends a word keeps the data it has.
TrieInsertKeepsFirst(t, destination, data) ==
    LET word == ToLowerCase(destination)
        walked == InsertWalk(t, word, 1)
    IN  IF walked[word].isEndOfWord THEN walked
        ELSE [walked EXCEPT ![word].isEndOfWord = TRUE,
                            ![word].destinationData = data]

TrieInsert(t, destination, data) ==
    LET word == ToLowerCase(destination) IN
    [InsertWalk(t, word, 1) EXCEPT ![word].isEndOfWord = TRUE,
                                  ![word].destinationData = data]

\* _dfsCollect(node, prefix, results): the entries pushed, in order.
RECURSIVE DfsCollect(_, _, _)
RECURSIVE DfsChildren(_, _, _, _)
DfsCollect(t, node, prefix) ==
    (IF t[node].isEndOfWord
     THEN <<[name |-> prefix, data |-> t[node].destinationData]>>
     ELSE <<>>) \o DfsChildren(t, node, prefix, 1)
DfsChildren(t, node, prefix, k) ==
    IF k > Len(t[node].children) THEN <<>>
    ELSE LET char == t[node].children[k] IN
         DfsCollect(t, Append(node, char), Append(prefix, char))
            \o DfsChildren(t, node, prefix, k + 1)

\* The navigation loop of searchWithPrefix, from the i-th character on:
\* the node reached, or none (<<FALSE>>) when a character has no child.
RECURSIVE Navigate(_, _, _)
Navigate(t, searchPrefix, i) ==
    IF i > Len(searchPrefix) THEN <<TRUE, searchPrefix>>
    ELSE IF searchPrefix[i] \notin Range(t[SubSeq(searchPrefix, 1, i - 1)].children)
         THEN <<FALSE>>
         ELSE Navigate(t, searchPrefix, i + 1)

\* A mutant of TrieAfterSearch: the navigation makes the nodes it does not
\* find, as insert does.
TrieAfterSearchWalked(t, prefix) == InsertWalk(t, ToLowerCase(prefix), 1)

\* The trie after searchWithPrefix(prefix): the navigation and _dfsCollect
\* read children, isEndOfWord and destinationData and assign none of them.
TrieAfterSearch(t, prefix) == t

searchWithPrefix(t, prefix) ==
    LET searchPrefix == ToLowerCase(prefix)
        current == Navigate(t, searchPrefix, 1)
    IN  IF current[1] THEN DfsCollect(t, current[2], searchPrefix) ELSE <<>>

(***************************************************************************)
(* 4. HASH MAP (src/destinations.js 234-275)                               *)
(* buckets maps a bucket index to its chain of <<key, value>> pairs; an    *)
(* index without a chain is an undefined slot of the array.                *)
(***************************************************************************)
NumBuckets == 100

\* _hash: the loop from the i-th character (0-based) on.
RECURSIVE HashFrom(_, _, _)
HashFrom(key, i, hash) ==
    IF i >= Len(key) THEN hash
    ELSE HashFrom(key, i + 1, (hash + CharCode(key[i + 1]) * i) % NumBuckets)

Hash(key) == HashFrom(key, 0, 0)

\* bucket.find(pair => pair[0] === key): the position of the first match, or 0.
FindPair(bucket, key) ==
    IF \E i \in 1..Len(bucket) : bucket[i][1] = key
    THEN CHOOSE i \in 1..Len(bucket) :
            /\ bucket[i][1] = key
            /\ \A j \in 1..(i - 1) : bucket[j][1] # key
    ELSE 0

\* A mutant of HashSet: the pair is looked for under the key as given, not
\* lowercased.
HashSetFindAsGiven(b, n, key, value) ==
    LET k == ToLowerCase(key)
        index == Hash(k)
        b0 == IF index \in DOMAIN b THEN b ELSE Put(b, index, <<>>)
        existingPair == FindPair(b0[index], key)
    IN  IF existingPair # 0
        THEN [buckets |-> [b0 EXCEPT ![index][existingPair] = <<k, value>>], size |-> n]
        ELSE [buckets |-> [b0 EXCEPT ![index] = Append(@, <<k, value>>)], size |-> n + 1]

\* set(key, value): the buckets and the size afterwards.
HashSet(b, n, key, value) ==
    LET k == ToLowerCase(key)
        index == Hash(k)
        b0 == IF index \in DOMAIN b THEN b ELSE Put(b, index, <<>>)
        existingPair == FindPair(b0[index], k)
    IN  IF existingPair # 0
        THEN [buckets |-> [b0 EXCEPT ![index][existingPair] = <<k, value>>], size |-> n]
        ELSE [buckets |-> [b0 EXCEPT ![index] = Append(@, <<k, value>>)], size |-> n + 1]

\* A mutant of HashGet: the key is hashed as given, not lowercased.
HashGetCaseSensitive(b, key) ==
    LET index == Hash(key) IN
    IF index \in DOMAIN b
    THEN LET pair == FindPair(b[index], key) IN
         IF pair # 0 THEN b[index][pair][2] ELSE NullObject
    ELSE NullObject

\* A mutant of BucketsAfterGet: get makes the bucket it does not find, as set
\* does.
BucketsAfterGetMadeBucket(b, key) ==
    LET index == Hash(ToLowerCase(key)) IN
    IF index \in DOMAIN b THEN b ELSE Put(b, index, <<>>)

\* The buckets after get(key): get reads buckets[index] and the pairs of the
\* bucket and assigns nothing.
BucketsAfterGet(b, key) == b

\* get(key)
HashGet(b, key) ==
    LET index == Hash(ToLowerCase(key)) IN
    IF index \in DOMAIN b
    THEN LET pair == FindPair(b[index], ToLowerCase(key)) IN
         IF pair # 0 THEN b[index][pair][2] ELSE NullObject
    ELSE NullObject

(***************************************************************************)
(* ALGORITHMS (src/destinations.js 280-347)                                *)
(***************************************************************************)
\* The collation key of a character: its letter, whatever its case (a space
\* sorts before every letter).
LetterOf(c) ==
    IF c \in Range(UpperCase) THEN IndexIn(UpperCase, c)
    ELSE IF c \in Range(LowerCase) THEN IndexIn(LowerCase, c)
    ELSE 0

\* Two sequences of collation keys compared from index i on: -1, 0 or 1.
RECURSIVE CompareFrom(_, _, _)
CompareFrom(a, b, i) ==
    IF i > Len(a) /\ i > Len(b) THEN 0
    ELSE IF i > Len(a) THEN -1
    ELSE IF i > Len(b) THEN 1
    ELSE IF a[i] < b[i] THEN -1
    ELSE IF a[i] > b[i] THEN 1
    ELSE CompareFrom(a, b, i + 1)

\* String.prototype.localeCompare in the default locale: by letters first,
\* and between strings with the same letters, lower case before upper case.
LocaleCompare(a, b) ==
    LET Letters(str) == [i \in 1..Len(str) |-> LetterOf(str[i])]
        Cases(str) == [i \in 1..Len(str) |-> IF str[i] \in Range(UpperCase) THEN 1 ELSE 0]
        primary == CompareFrom(Letters(a), Letters(b), 1)
    IN  IF primary # 0 THEN primary ELSE CompareFrom(Cases(a), Cases(b), 1)

\* A mutant of CompareDestinations: by cost, the dearer destination comes first.
CompareDestinationsCostDescending(by, a, b) ==
    CASE by = "popularity" -> b.popularity - a.popularity
      [] by = "cost"       -> b.cost - a.cost
      [] by = "name"       -> LocaleCompare(a.name, b.name)
      [] OTHER             -> 0

\* The comparators the program sorts destinations with (lines 1293, 1298, 1359-1366).
CompareDestinations(by, a, b) ==
    CASE by = "popularity" -> b.popularity - a.popularity
      [] by = "cost"       -> a.cost - b.cost
      [] by = "name"       -> LocaleCompare(a.name, b.name)
      [] OTHER             -> 0

\* A mutant of Merge: the right element is taken unless the left is strictly smaller.
RECURSIVE MergeRightFirst(_, _, _)
MergeRightFirst(by, left, right) ==
    IF left = <<>> \/ right = <<>> THEN left \o right
    ELSE IF CompareDestinations(by, left[1], right[1]) > 0
         THEN <<left[1]>> \o MergeRightFirst(by, Tail(left), right)
         ELSE <<right[1]>> \o MergeRightFirst(by, left, Tail(right))

\* merge(left, right, compareFunction)
RECURSIVE Merge(_, _, _)
Merge(by, left, right) ==
    IF left = <<>> \/ right = <<>> THEN left \o right
    ELSE IF CompareDestinations(by, left[1], right[1]) <= 0
         THEN <<left[1]>> \o Merge(by, Tail(left), right)
         ELSE <<right[1]>> \o Merge(by, left, Tail(right))

RECURSIVE mergeSort(_, _)
mergeSort(by, arr) ==
    IF Len(arr) <= 1 THEN arr
    ELSE LET mid == Len(arr) \div 2 IN
         Merge(by, mergeSort(by, SubSeq(arr, 1, mid)),
                   mergeSort(by, SubSeq(arr, mid + 1, Len(arr))))

(***************************************************************************)
(* mergeSort and merge on array objects: mem is the sequence of the arrays  *)
(* allocated so far and an array is referred to by its index in mem, so     *)
(* that a write to an array another reference points to is visible.         *)
(***************************************************************************)
\* A new array object holding arr; its reference is Len(mem) + 1.
NewArray(mem, arr) == Append(mem, arr)

\* Array.prototype.slice(from, to) of the array at ref (0-based, to excluded).
SliceAt(mem, ref, from, to) == NewArray(mem, SubSeq(mem[ref], from + 1, to))

\* Array.prototype.push on the array at ref.
PushAt(mem, ref, x) == [mem EXCEPT ![ref] = Append(@, x)]

\* a.concat(b): a new array.
ConcatAt(mem, a, b) == NewArray(mem, mem[a] \o mem[b])

\* A mutant of MergeLoop: the left element is taken only when strictly smaller.
RECURSIVE MergeLoopStrict(_, _, _, _, _, _, _)
MergeLoopStrict(by, mem, left, right, result, leftIndex, rightIndex) ==
    IF leftIndex < Len(mem[left]) /\ rightIndex < Len(mem[right])
    THEN IF CompareDestinations(by, mem[left][leftIndex + 1], mem[right][rightIndex + 1]) < 0
         THEN MergeLoopStrict(by, PushAt(mem, result, mem[left][leftIndex + 1]),
                              left, right, result, leftIndex + 1, rightIndex)
         ELSE MergeLoopStrict(by, PushAt(mem, result, mem[right][rightIndex + 1]),
                              left, right, result, leftIndex, rightIndex + 1)
    ELSE [mem |-> mem, leftIndex |-> leftIndex, rightIndex |-> rightIndex]

\* The while loop of merge (lines 295-303).
RECURSIVE MergeLoop(_, _, _, _, _, _, _)
MergeLoop(by, mem, left, right, result, leftIndex, rightIndex) ==
    IF leftIndex < Len(mem[left]) /\ rightIndex < Len(mem[right])
    THEN IF CompareDestinations(by, mem[left][leftIndex + 1], mem[right][rightIndex + 1]) <= 0
         THEN MergeLoop(by, PushAt(mem, result, mem[left][leftIndex + 1]),
                        left, right, result, leftIndex + 1, rightIndex)
         ELSE MergeLoop(by, PushAt(mem, result, mem[right][rightIndex + 1]),
                        left, right, result, leftIndex, rightIndex + 1)
    ELSE [mem |-> mem, leftIndex |-> leftIndex, rightIndex |-> rightIndex]

\* merge(left, right, compareFunction) on array objects: the memory after the
\* call and the reference returned.
mergeAt(by, mem, left, right) ==
    LET m0 == NewArray(mem, <<>>)
        result == Len(m0)
        loop == MergeLoop(by, m0, left, right, result, 0, 0)
        m1 == SliceAt(loop.mem, left, loop.leftIndex, Len(loop.mem[left]))
        m2 == ConcatAt(m1, result, Len(m1))
        m3 == SliceAt(m2, right, loop.rightIndex, Len(m2[right]))
        m4 == ConcatAt(m3, Len(m2), Len(m3))
    IN  [mem |-> m4, ref |-> Len(m4)]

\* mergeSort(arr, compareFunction) on array objects.
RECURSIVE mergeSortAt(_, _, _)
mergeSortAt(by, mem, arr) ==
    IF Len(mem[arr]) <= 1 THEN [mem |-> mem, ref |-> arr]
    ELSE LET mid == Len(mem[arr]) \div 2
             m0 == SliceAt(mem, arr, 0, mid)
             left == mergeSortAt(by, m0, Len(m0))
             m1 == SliceAt(left.mem, arr, mid, Len(left.mem[arr]))
             right == mergeSortAt(by, m1, Len(m1))
         IN  mergeAt(by, right.mem, left.ref, right.ref)

\* The loop counting the common leading characters of s1 and s2, from index i on.
RECURSIVE CommonStart(_, _, _)
CommonStart(s1, s2, i) ==
    IF i < Min(Len(s1), Len(s2)) /\ s1[i + 1] = s2[i + 1]
    THEN 1 + CommonStart(s1, s2, i + 1)
    ELSE 0

simpleStringMatch(str1, str2) ==
    LET s1 == ToLowerCase(str1)
        s2 == ToLowerCase(str2)
    IN  IF Includes(s1, s2) \/ Includes(s2, s1) THEN 0
        ELSE CommonStart(s1, s2, 0)

\* Array.prototype.slice(0, limit), for limit >= 0.
Slice(arr, limit) == SubSeq(arr, 1, Min(limit, Len(arr)))

\* Set.prototype.add, the set kept as the sequence of its members in insertion order.
SetAdd(results, x) == IF x \in Range(results) THEN results ELSE Append(results, x)

RECURSIVE SetAddAll(_, _)
SetAddAll(results, xs) ==
    IF xs = <<>> THEN results ELSE SetAddAll(SetAdd(results, Head(xs)), Tail(xs))

(***************************************************************************)
(* PUBLIC API (src/destinations.js 1269-1371)                              *)
(***************************************************************************)
\* Step 1 of searchDestinations: the exact match, if any.
ExactMatches(b, query) ==
    LET exactMatch == HashGet(b, query) IN
    IF exactMatch # NullObject THEN <<exactMatch>> ELSE <<>>

\* Step 2: the data of the prefix matches, in traversal order.
PrefixMatches(t, query) ==
    LET m == searchWithPrefix(t, query) IN [i \in 1..Len(m) |-> m[i].data]

\* Step 3: similarity >= 2.
FuzzyKeep(query, dest) ==
    simpleStringMatch(ToLowerCase(query), ToLowerCase(dest.name)) >= 2

FuzzyMatches(data, query) ==
    LET keep(dest) == FuzzyKeep(query, dest) IN SelectSeq(data, keep)

\* A mutant of searchDestinations: the empty query is searched like any other.
searchDestinationsNoEmptyCheck(data, t, b, query, limit) ==
    LET results == SetAddAll(SetAddAll(ExactMatches(b, query),
                                       PrefixMatches(t, query)),
                             FuzzyMatches(data, query))
    IN  Slice(mergeSort("popularity", results), limit)

searchDestinations(data, t, b, query, limit) ==
    IF Len(query) < 1 THEN <<>>
    ELSE LET results == SetAddAll(SetAddAll(ExactMatches(b, query),
                                            PrefixMatches(t, query)),
                                  FuzzyMatches(data, query))
         IN  Slice(mergeSort("popularity", results), limit)

\* A mutant of getPopularDestinations: the list is truncated before it is sorted.
getPopularDestinationsSliceFirst(data, limit) ==
    LET sorted == mergeSort("popularity", Slice(data, limit)) IN
    [i \in 1..Len(sorted) |-> sorted[i].name]

getPopularDestinations(data, limit) ==
    LET sorted == Slice(mergeSort("popularity", data), limit) IN
    [i \in 1..Len(sorted) |-> sorted[i].name]

searchDestination(b, name) == HashGet(b, name)

\* destinationsData after mergeSort(arr, by) of lines 1294, 1298 and 1368,
\* where arr is another array object than destinationsData (a spread copy,
\* the result of filter or of Array.from).
TableAfterSort(data, arr, by) == mergeSortAt(by, <<data, arr>>, 2).mem[1]

\* adjacencyList after findShortestPath: the lists are read with get, and a
\* vertex without a list is given [] in place of one, not in the Map.
GraphAfterRoute(adj, start, end) == adj

\* The first loop of getTopActivities (lines 1323-1327): the queue is emptied
\* into activities and into tempQueue.
RECURSIVE CopyToTemp(_, _, _)
CopyToTemp(h, activities, tempQueue) ==
    IF Len(h) = 0 THEN [heap |-> h, activities |-> activities, tempQueue |-> tempQueue]
    ELSE LET d == Dequeued("priorityDesc", h) IN
         CopyToTemp(d.heap, Append(activities, d.item),
                    Enqueued("priorityDesc", tempQueue, d.item))

\* The second loop (lines 1330-1332): tempQueue is emptied back into the queue.
RECURSIVE RestoreFromTemp(_, _)
RestoreFromTemp(h, tempQueue) ==
    IF Len(tempQueue) = 0 THEN h
    ELSE LET d == Dequeued("priorityDesc", tempQueue) IN
         RestoreFromTemp(Enqueued("priorityDesc", h, d.item), d.heap)

\* A mutant of getTopActivities: the activities returned are not put back.
getTopActivitiesTaken(h, count) ==
    LET copied == CopyToTemp(h, <<>>, <<>>)
        kept == SubSeq(copied.activities, Min(count, Len(copied.activities)) + 1,
                       Len(copied.activities))
        RECURSIVE PutBack(_, _)
        PutBack(q, k) == IF k > Len(kept) THEN q
                         ELSE PutBack(Enqueued("priorityDesc", q, kept[k]), k + 1)
    IN  [ret |-> Slice(copied.activities, count), heap |-> PutBack(copied.heap, 1)]

\* getTopActivities(count): the value returned and the queue afterwards.
getTopActivities(h, count) ==
    LET copied == CopyToTemp(h, <<>>, <<>>) IN
    [ret |-> Slice(copied.activities, count),
     heap |-> RestoreFromTemp(copied.heap, copied.tempQueue)]

\* An optional property of the criteria object: <<>> when absent, <<v>> when v.
\* JavaScript truthiness of a present value: not the empty string (type and
\* state are strings of characters, sortBy is one of the program's keywords),
\* not 0.
TruthyString(opt) == opt # <<>> /\ opt[1] # <<>>
TruthyKeyword(opt) == opt # <<>> /\ opt[1] # ""
TruthyNumber(opt) == opt # <<>> /\ opt[1] # 0

\* A mutant of filterDestinations: the cost bound is strict.
filterDestinationsStrictCost(data, criteria) ==
    LET byType(dest) == ToLowerCase(dest.type) = ToLowerCase(criteria.type[1])
        byState(dest) == ToLowerCase(dest.state) = ToLowerCase(criteria.state[1])
        byCost(dest) == dest.cost < criteria.maxCost[1]
        byPopularity(dest) == dest.popularity >= criteria.minPopularity[1]
        f1 == IF TruthyString(criteria.type) THEN SelectSeq(data, byType) ELSE data
        f2 == IF TruthyString(criteria.state) THEN SelectSeq(f1, byState) ELSE f1
        f3 == IF TruthyNumber(criteria.maxCost) THEN SelectSeq(f2, byCost) ELSE f2
        f4 == IF TruthyNumber(criteria.minPopularity) THEN SelectSeq(f3, byPopularity) ELSE f3
    IN  IF TruthyKeyword(criteria.sortBy) THEN mergeSort(criteria.sortBy[1], f4) ELSE f4

filterDestinations(data, criteria) ==
    LET byType(dest) == ToLowerCase(dest.type) = ToLowerCase(criteria.type[1])
        byState(dest) == ToLowerCase(dest.state) = ToLowerCase(criteria.state[1])
        byCost(dest) == dest.cost <= criteria.maxCost[1]
        byPopularity(dest) == dest.popularity >= criteria.minPopularity[1]
        f1 == IF TruthyString(criteria.type) THEN SelectSeq(data, byType) ELSE data
        f2 == IF TruthyString(criteria.state) THEN SelectSeq(f1, byState) ELSE f1
        f3 == IF TruthyNumber(criteria.maxCost) THEN SelectSeq(f2, byCost) ELSE f2
        f4 == IF TruthyNumber(criteria.minPopularity) THEN SelectSeq(f3, byPopularity) ELSE f3
    IN  IF TruthyKeyword(criteria.sortBy) THEN mergeSort(criteria.sortBy[1], f4) ELSE f4

(***************************************************************************)
(* TRANSPORT PLANNER (src/script.js): pure functions.                       *)
(***************************************************************************)
\* modes.push(mode) if the condition holds.
PushIf(modes, condition, mode) == IF condition THEN Append(modes, mode) ELSE modes

\* A mutant of getOptimalTransportModes: the two first modes are returned.
getOptimalTransportModesTopTwo(distance) ==
    LET m1 == PushIf(<<>>, distance > 1000, "flight")
        m2 == PushIf(m1, distance > 200 /\ distance < 1500, "train")
        m3 == PushIf(m2, distance < 500, "bus")
        m4 == PushIf(m3, distance < 300, "car")
    IN  Slice(m4, 2)

getOptimalTransportModes(distance) ==
    LET m1 == PushIf(<<>>, distance > 1000, "flight")
        m2 == PushIf(m1, distance > 200 /\ distance < 1500, "train")
        m3 == PushIf(m2, distance < 500, "bus")
        m4 == PushIf(m3, distance < 300, "car")
    IN  Slice(m4, 3)

(***************************************************************************)
(* API SERVICE AND PLANNER AS CONSTRUCTED                                  *)
(***************************************************************************)
\* window.API_CONFIG as shipped (src/unnamed/part_000 4-27): no service enabled.
API_CONFIG == [amadeus |-> [enabled |-> FALSE], googlePlaces |-> [enabled |-> FALSE]]

\* new APIService() (src/api-service.js 5-9); calls holds the calls of its
\* async functions that have not been taken by their caller.
NewAPIService(config) == [config |-> config, cache |-> NullObject, calls |-> <<>>]

\* new TransportPlanner() (src/script.js 3-41), with the page as served:
\* transportationSegments holds the ids of the rendered segment cards,
\* summaryTransportation what the trip summary shows of the segments.
NewPlanner ==
    [origin |-> "", destination |-> "", segments |-> <<>>, segmentCounter |-> 0,
     transportationSegments |-> <<>>,
     summaryTransportation |-> [hidden |-> TRUE, list |-> <<>>]]

\* The time the page is loaded at.
StartTime == 1000000

\* const searchCache = new Map() and const destinationCache = new Map()
\* (src/script.js 1222, 1261): the entries in the order they were set in.
NoCaches == [searchCache |-> <<>>, destinationCache |-> <<>>]

IdleApp ==
    /\ apiService = NewAPIService(API_CONFIG)
    /\ planner = NewPlanner
    /\ now = StartTime
    /\ added = <<>>
    /\ history = <<>>
    /\ caches = NoCaches

(***************************************************************************)
(* API SERVICE (src/api-service.js)                                        *)
(* A JSON object is a record that has the fields the body has; ratings are *)
(* in tenths.                                                              *)
(***************************************************************************)
\* Date.now() - cached.timestamp < 1800000 (line 113).
TokenLifetime == 1800000

getFallbackHotels(city) ==
    << [name |-> <<"Premium Hotel ", city>>, rating |-> 45,
        price |-> "3,500 - 5,000", address |-> <<"City Center, ", city>>,
        amenities |-> <<"WiFi", "Restaurant", "Pool", "Spa">>,
        description |-> "Luxury accommodation with modern amenities"],
       [name |-> <<"Budget Stay ", city>>, rating |-> 38,
        price |-> "1,500 - 2,500", address |-> <<"Near Railway Station, ", city>>,
        amenities |-> <<"WiFi", "Parking">>,
        description |-> "Comfortable budget accommodation"] >>

getFallbackPlaces(city) ==
    << [name |-> <<"Famous Temple in ", city>>, rating |-> 42,
        address |-> <<"Temple Area, ", city>>, priceLevel |-> 1, type |-> "attraction"],
       [name |-> <<city, " Museum">>, rating |-> 40,
        address |-> <<"Museum Road, ", city>>, priceLevel |-> 2, type |-> "attraction"] >>

getFallbackRestaurants(city) ==
    << [name |-> <<"Local Cuisine ", city>>, rating |-> 43,
        address |-> <<"Food Street, ", city>>, priceLevel |-> 2, type |-> "restaurant"],
       [name |-> <<"Fine Dining ", city>>, rating |-> 45,
        address |-> <<"Hotel District, ", city>>, priceLevel |-> 3, type |-> "restaurant"] >>

\* The catch blocks of the three searches (lines 46-48, 74-76, 102-104).
Fallback(op, city) ==
    CASE op = "searchHotels"      -> getFallbackHotels(city)
      [] op = "searchPlaces"      -> getFallbackPlaces(city)
      [] op = "searchRestaurants" -> getFallbackRestaurants(city)

\* o.f || default
FieldOr(o, f, default) == IF f \in DOMAIN o THEN o[f] ELSE default

\* What a format function does: it returns a list or throws a TypeError.
Returns(list) == [throws |-> FALSE, value |-> list]
Throws == [throws |-> TRUE, value |-> <<>>]

\* formatHotelData (lines 165-177): reading apiData.data of null throws, and so
\* does hotel.hotel.name of an entry without hotel.
formatHotelData(apiData) ==
    IF apiData = NullObject THEN Throws
    ELSE IF "data" \notin DOMAIN apiData \/ Len(apiData.data) = 0 THEN Returns(<<>>)
    ELSE IF \E k \in 1..Len(apiData.data) : "hotel" \notin DOMAIN apiData.data[k]
         THEN Throws
         ELSE Returns([k \in 1..Len(apiData.data) |->
                  LET hotel == apiData.data[k] IN
                  [name |-> hotel.hotel.name,
                   rating |-> FieldOr(hotel.hotel, "rating", 0),
                   price |-> IF "offers" \in DOMAIN hotel /\ Len(hotel.offers) > 0
                             THEN hotel.offers[1].price.total
                             ELSE "Price on request",
                   address |-> "Address not available",
                   amenities |-> FieldOr(hotel.hotel, "amenities", <<>>),
                   description |-> "",
                   images |-> FieldOr(hotel.hotel, "media", <<>>)]])

\* formatPlacesData and formatRestaurantsData (lines 179-203), which differ in
\* the type they give the entries; an entry that is null throws.
formatResults(apiData, type) ==
    IF apiData = NullObject THEN Throws
    ELSE IF "results" \notin DOMAIN apiData \/ Len(apiData.results) = 0 THEN Returns(<<>>)
    ELSE IF \E k \in 1..Len(apiData.results) : apiData.results[k] = NullObject
         THEN Throws
         ELSE Returns([k \in 1..Len(apiData.results) |->
                  LET place == apiData.results[k] IN
                  [name |-> place.name,
                   rating |-> FieldOr(place, "rating", 0),
                   address |-> place.formatted_address,
                   priceLevel |-> FieldOr(place, "price_level", 0),
                   placeId |-> place.place_id,
                   type |-> type]])

formatPlacesData(apiData) == formatResults(apiData, "attraction")
formatRestaurantsData(apiData) == formatResults(apiData, "restaurant")

Format(op, apiData) ==
    CASE op = "searchHotels"      -> formatHotelData(apiData)
      [] op = "searchPlaces"      -> formatPlacesData(apiData)
      [] op = "searchRestaurants" -> formatRestaurantsData(apiData)

\* this.config.amadeus?.enabled, this.config.googlePlaces?.enabled (lines 13, 53, 81).
Enabled(config, op) ==
    IF op = "searchHotels" THEN config.amadeus.enabled ELSE config.googlePlaces.enabled

\* A mutant of InsideTry: the access token is obtained before the try block.
InsideTryAfterToken(pc) == pc \in {"request", "json"}

\* The awaits of a search that are inside its try block (lines 17-45, 57-73,
\* 85-101): the token fetch and the parsing of its response (in
\* getAmadeusToken, awaited at line 19), the request and the parsing of its
\* response together with the formatting of what was parsed.
InsideTry(pc) == pc \in {"tokenFetch", "tokenJson", "request", "json"}

\* A search ends: it resolves to a list, or it rejects with an error.
Resolved(c, list) == [c EXCEPT !.pc = "settled", !.outcome = "resolved", !.ret = list]
Rejected(c) == [c EXCEPT !.pc = "settled", !.outcome = "rejected", !.failed = TRUE]

\* An error is thrown, or an awaited promise rejects, while the search is at pc.
Thrown(c) ==
    IF InsideTry(c.pc)
    THEN [Resolved(c, Fallback(c.op, c.city)) EXCEPT !.failed = TRUE]
    ELSE Rejected(c)

\* The cached token is there and fresh (lines 110-115).
TokenCached(cache, time) ==
    cache # NullObject /\ time - cache.timestamp < TokenLifetime

\* A search is called: up to its first await, or to its return when the
\* service is not enabled.
Called(config, cache, time, op, city) ==
    LET c == [op |-> op, city |-> city, pc |-> "called", disabled |-> FALSE,
              failed |-> FALSE, outcome |-> "pending", ret |-> <<>>]
    IN  IF ~Enabled(config, op)
        THEN [Resolved(c, Fallback(op, city)) EXCEPT !.disabled = TRUE]
        ELSE IF op = "searchHotels" /\ ~TokenCached(cache, time)
             THEN [c EXCEPT !.pc = "tokenFetch"]
             ELSE [c EXCEPT !.pc = "request"]

(***************************************************************************)
(* PLANNER (src/script.js)                                                 *)
(* An id is a number or a string: the record of its type and of the pieces *)
(* its decimal text is made of.  === holds of two ids of the same type and *)
(* text.                                                                   *)
(***************************************************************************)
NumberId(n) == [type |-> "number", text |-> <<n>>]

\* Date.now().toString() (line 1013)
TimeId(time) == [type |-> "string", text |-> <<time>>]

\* `${Date.now()}-${index}` (line 943)
TimeIndexId(time, index) == [type |-> "string", text |-> <<time, "-", index>>]

\* data-segment-id="${segment.id}", read back as element.dataset.segmentId
\* (lines 690-757, 765): the id as a string.
DatasetId(id) == [id EXCEPT !.type = "string"]

\* The connections of initializeRouteGraph the model uses (lines 83-84, 92,
\* 107).
RouteDistance(from, to) ==
    CASE {from, to} = {"Delhi", "Jaipur"} -> 280
      [] {from, to} = {"Delhi", "Agra"}   -> 200
      [] {from, to} = {"Jaipur", "Agra"}  -> 240
      [] {from, to} = {"Mumbai", "Goa"}   -> 600
      [] OTHER                            -> 0

\* searchDestination(name) finds a destination (src/destinations.js 1308-1310);
\* of the names the model uses, Xyz is none.
KnownDestination(name) == name \in {"Delhi", "Jaipur", "Agra", "Mumbai", "Goa"}

\* destData.transportation of Jaipur, of Agra and of Goa (src/destinations.js
\* 457-461, 480-483, 367-370).
Transportation(name) ==
    CASE name = "Jaipur" ->
           << [mode |-> "flight", from |-> "Delhi", to |-> "Jaipur Airport"],
              [mode |-> "train",  from |-> "Delhi", to |-> "Jaipur Junction"],
              [mode |-> "car",    from |-> "Delhi", to |-> "Jaipur"] >>
      [] name = "Agra" ->
           << [mode |-> "train", from |-> "Delhi", to |-> "Agra"],
              [mode |-> "car",   from |-> "Delhi", to |-> "Agra"] >>
      [] name = "Goa" ->
           << [mode |-> "flight", from |-> "Delhi",  to |-> "Goa Airport"],
              [mode |-> "train",  from |-> "Mumbai", to |-> "Goa"] >>
      [] OTHER -> <<>>

\* calculateDistance (lines 833-848): the route graph, else the estimate from
\* coordinates, which no pair of names of the model without a connection has.
calculateDistance(from, to) == RouteDistance(from, to)

\* updateTransportationSection (lines 659-785): the empty state, or one card
\* for each segment, in order, whose controls carry the segment's id.
updateTransportationSection(p) ==
    [p EXCEPT !.transportationSegments =
        [k \in 1..Len(p.segments) |-> DatasetId(p.segments[k].id)]]

\* updateSummary (lines 1110-1134), as far as the segments go: the list of the
\* segments is written and shown, or the list is hidden as it is.
updateSummary(p) ==
    IF Len(p.segments) > 0
    THEN [p EXCEPT !.summaryTransportation =
             [hidden |-> FALSE,
              list |-> [k \in 1..Len(p.segments) |-> p.segments[k].mode]]]
    ELSE [p EXCEPT !.summaryTransportation.hidden = TRUE]

\* optimizeTransportRoute (lines 533-562) and showOriginBasedInfo (564-577).
optimizeTransportRoute(p) ==
    IF p.origin # "" /\ p.destination # ""
    THEN LET distance == calculateDistance(p.origin, p.destination)
             optimalModes == getOptimalTransportModes(distance)
         IN  IF distance = 0 THEN p
             ELSE updateTransportationSection(updateSummary(
                    [p EXCEPT
                       !.segments = [k \in 1..Len(optimalModes) |->
                                       [id |-> NumberId(p.segmentCounter + k),
                                        mode |-> optimalModes[k],
                                        from |-> p.origin, to |-> p.destination]],
                       !.segmentCounter = @ + Len(optimalModes)]))
    ELSE IF p.origin # "" /\ KnownDestination(p.origin)
         THEN updateTransportationSection(updateSummary(p))
         ELSE p

\* optimizeTransportationRoutes (lines 941-952)
optimizeTransportationRoutes(transportation, time) ==
    [k \in 1..Len(transportation) |->
        [id |-> TimeIndexId(time, k - 1),
         mode |-> transportation[k].mode,
         from |-> transportation[k].from,
         to |-> transportation[k].to]]

\* handleOriginSelect (lines 261-276)
handleOriginSelect(p, originName) ==
    LET p1 == [p EXCEPT !.origin = originName]
        p2 == IF p1.destination # "" THEN optimizeTransportRoute(p1) ELSE p1
    IN  updateSummary(p2)

\* handleDestinationSelect (lines 346-406)
handleDestinationSelect(p, destName, time) ==
    LET p1 == [p EXCEPT !.destination = destName]
        p2 == IF p1.origin # "" THEN optimizeTransportRoute(p1) ELSE p1
        routes == optimizeTransportationRoutes(Transportation(destName), time)
        p3 == [p2 EXCEPT !.segments =
                  [k \in 1..Len(routes) |-> [routes[k] EXCEPT !.from = ""]]]
    IN  IF KnownDestination(destName)
        THEN updateSummary(updateTransportationSection(p3))
        ELSE updateSummary(p1)

\* this.renderSegments() (lines 1022, 1035): the class has no method of this
\* name, the call throws a TypeError and the handler ends there, with what it
\* had done so far.
renderSegments(p) == [threw |-> TRUE, planner |-> p]

\* addSegment (lines 1011-1024)
addSegment(p, time) ==
    LET newSegment == [id |-> TimeId(time), mode |-> "flight", from |-> "", to |-> ""]
        p1 == [p EXCEPT !.segments = Append(@, newSegment)]
        rendered == renderSegments(p1)
    IN  IF rendered.threw THEN rendered.planner ELSE updateSummary(rendered.planner)

\* this.segments.filter(seg => seg.id !== id)
RECURSIVE WithoutId(_, _)
WithoutId(segments, id) ==
    IF segments = <<>> THEN <<>>
    ELSE IF Head(segments).id # id
         THEN <<Head(segments)>> \o WithoutId(Tail(segments), id)
         ELSE WithoutId(Tail(segments), id)

\* removeSegment (lines 1033-1037)
removeSegment(p, id) ==
    LET p1 == [p EXCEPT !.segments = WithoutId(@, id)]
        rendered == renderSegments(p1)
    IN  IF rendered.threw THEN rendered.planner ELSE updateSummary(rendered.planner)

\* updateSegment (lines 1026-1031)
updateSegment(p, id, field, value) ==
    updateSummary([p EXCEPT !.segments =
        [k \in 1..Len(@) |-> IF @[k].id = id THEN [@[k] EXCEPT ![field] = value]
                                             ELSE @[k]]])

(***************************************************************************)
(* State shared by the specifications below: each one exercises one        *)
(* component and leaves the others as constructed.                         *)
(***************************************************************************)
IdleQueue == heap = <<>> /\ compare = "priorityAsc"
IdleGraph == adjacencyList = EmptyMap
IdleStore == buckets = EmptyMap /\ size = 0 /\ root = NewTrie
IdleData  == destinationsData = <<>>

Unchanged ==
    UNCHANGED <<heap, compare, adjacencyList, buckets, size, root, destinationsData,
                apiService, planner, now, added, history, caches>>

\* The program is single-threaded: a public function returns, and its caller
\* takes the value, before the next one is called.
Return ==
    /\ call # NoCall
    /\ call' = NoCall
    /\ Unchanged

(***************************************************************************)
(* The priority queue under test: any sequence of enqueue and dequeue.     *)
(***************************************************************************)
QueueItems == [activity : {"x", "y"}, priority : 1..MaxPriority]

InitQueue ==
    /\ heap = <<>>
    /\ compare \in {"priorityAsc", "priorityDesc"}
    /\ IdleGraph /\ IdleStore /\ IdleData
    /\ IdleApp
    /\ call = NoCall

Enqueue(item) ==
    /\ Len(heap) < MaxHeap
    /\ heap' = Enqueued(compare, heap, item)
    /\ call' = [op |-> "enqueue", item |-> item]
    /\ UNCHANGED <<compare, adjacencyList, buckets, size, root, destinationsData, apiService, planner, now, added, history, caches>>

Dequeue ==
    /\ heap' = Dequeued(compare, heap).heap
    /\ call' = [op |-> "dequeue", ret |-> Dequeued(compare, heap).item]
    /\ UNCHANGED <<compare, adjacencyList, buckets, size, root, destinationsData, apiService, planner, now, added, history, caches>>

NextQueue ==
    \/ \E item \in QueueItems : Enqueue(item)
    \/ Dequeue

SpecQueue == InitQueue /\ [][NextQueue]_vars

(***************************************************************************)
(* The queue with a record of the calls made on it: history holds, for     *)
(* each enqueue, the item passed and, for each dequeue, the value returned *)
(* and the number of items held when it was called.                        *)
(***************************************************************************)
\* size() (lines 118-120).
QueueSize(h) == Len(h)

RecordedEnqueue(item) ==
    /\ Len(history) < MaxOps
    /\ heap' = Enqueued(compare, heap, item)
    /\ call' = [op |-> "enqueue", item |-> item, held |-> QueueSize(heap)]
    /\ history' = Append(history, call')
    /\ UNCHANGED <<compare, adjacencyList, buckets, size, root, destinationsData, apiService, planner, now, added, caches>>

RecordedDequeue ==
    /\ Len(history) < MaxOps
    /\ heap' = Dequeued(compare, heap).heap
    /\ call' = [op |-> "dequeue", ret |-> Dequeued(compare, heap).item, held |-> QueueSize(heap)]
    /\ history' = Append(history, call')
    /\ UNCHANGED <<compare, adjacencyList, buckets, size, root, destinationsData, apiService, planner, now, added, caches>>

NextLedger ==
    \/ \E item \in QueueItems : RecordedEnqueue(item)
    \/ RecordedDequeue

SpecLedger == InitQueue /\ [][NextLedger]_vars

(***************************************************************************)
(* The route graph under test: edges are added, routes are asked for.      *)
(***************************************************************************)
RouteEnds == {<<"A", "B">>, <<"A", "C">>, <<"C", "B">>}
RouteModes == {"flight", "bus"}
RouteQueries == {<<"A", "B">>}

EdgeCount(adj) ==
    LET RECURSIVE Total(_)
        Total(S) == IF S = {} THEN 0
                    ELSE LET v == CHOOSE x \in S : TRUE IN Len(adj[v]) + Total(S \ {v})
    IN  Total(DOMAIN adj) \div 2

InitRoute ==
    /\ adjacencyList = EmptyMap
    /\ IdleQueue /\ IdleStore /\ IdleData
    /\ IdleApp
    /\ call = NoCall

AddEdge(vertex1, vertex2, weight, mode) ==
    /\ EdgeCount(adjacencyList) < MaxEdges
    /\ adjacencyList' = addEdge(adjacencyList, vertex1, vertex2, weight, mode)
    /\ call' = NoCall
    /\ UNCHANGED <<heap, compare, buckets, size, root, destinationsData, apiService, planner, now, added, history, caches>>

\* getOptimizedRoute(start, end, preferredMode)
FindRoute(start, end, preferredMode) ==
    /\ call = NoCall
    /\ call' = [op |-> "findShortestPath", start |-> start, end |-> end,
                preferredMode |-> preferredMode,
                ret |-> findShortestPath(adjacencyList, start, end, preferredMode)]
    /\ adjacencyList' = GraphAfterRoute(adjacencyList, start, end)
    /\ UNCHANGED <<heap, compare, buckets, size, root, destinationsData,
                   apiService, planner, now, added, history, caches>>

NextRoute ==
    \/ \E e \in RouteEnds, w \in 0..MaxWeight, m \in RouteModes :
           AddEdge(e[1], e[2], w, m)
    \/ \E q \in RouteQueries, p \in RouteModes \cup {Null} :
           FindRoute(q[1], q[2], p)
    \/ Return

SpecRoute == InitRoute /\ [][NextRoute]_vars

(***************************************************************************)
(* Routes that do not exist: graphs with separate parts (a self-loop at B,  *)
(* edges A-C and C-B), asked for routes between vertices, from a vertex to  *)
(* itself, and to and from names that are no vertices.                      *)
(***************************************************************************)
ReachEnds == {<<"A", "C">>, <<"B", "B">>, <<"C", "B">>}
ReachModes == {"flight"}
ReachQueries == {<<"A", "B">>, <<"B", "A">>, <<"A", "A">>, <<"A", "D">>}

NextReach ==
    \/ \E e \in ReachEnds, w \in 0..MaxWeight, m \in ReachModes :
           AddEdge(e[1], e[2], w, m)
    \/ \E q \in ReachQueries, p \in ReachModes \cup {Null} :
           FindRoute(q[1], q[2], p)
    \/ Return

SpecReach == InitRoute /\ [][NextReach]_vars

(***************************************************************************)
(* The graph as it is built: vertices and edges are added in any order,    *)
(* edges between two vertices and from a vertex to itself, repeated.       *)
(***************************************************************************)
GraphVertices == {"A", "B", "C"}
GraphEnds == {<<"A", "B">>, <<"B", "B">>}
GraphWeights == {0, 3}
GraphModes == {"flight", "ferry"}

\* addVertex(vertex); call keeps the lists as they were when it was called.
AddVertex(vertex) ==
    /\ adjacencyList' = addVertex(adjacencyList, vertex)
    /\ call' = [op |-> "addVertex", vertex |-> vertex, before |-> adjacencyList]
    /\ UNCHANGED <<heap, compare, buckets, size, root, destinationsData, apiService, planner, now, added, history, caches>>

NextGraph ==
    \/ \E vertex \in GraphVertices : AddVertex(vertex)
    \/ \E e \in GraphEnds, w \in GraphWeights, m \in GraphModes :
           AddEdge(e[1], e[2], w, m)

SpecGraph == InitRoute /\ [][NextGraph]_vars

(***************************************************************************)
(* The costs of edges: edges of every mode with a rate, of a mode without  *)
(* one and of a mode whose name Object.prototype has.                      *)
(***************************************************************************)
CostModes == {"flight", "train", "bus", "car", "ferry", "constructor"}

NextCost ==
    \E w \in GraphWeights, m \in CostModes : AddEdge("A", "B", w, m)

SpecCost == InitRoute /\ [][NextCost]_vars

(***************************************************************************)
(* findShortestPath step by step: one action per round of its while loop,   *)
(* of its for loop over the neighbours, and of the while loop of            *)
(* _reconstructPath.  While it runs, call holds its local variables; steps  *)
(* counts the rounds made.                                                  *)
(***************************************************************************)
WalkEnds == {<<"A", "B">>, <<"B", "C">>, <<"C", "A">>, <<"B", "B">>}
WalkWeights == {0, 1}
WalkQueries == {<<"A", "C">>, <<"A", "D">>}

\* The rounds a run is followed for.
MaxSteps == 12 * MaxEdges + 6

Running(pc) == call.op = "findShortestPath" /\ "pc" \in DOMAIN call /\ call.pc = pc

\* Lines 164-175.
StartRoute(start, end, preferredMode) ==
    /\ call = NoCall
    /\ call' = [op |-> "findShortestPath", start |-> start, end |-> end,
                preferredMode |-> preferredMode, pc |-> "loop",
                st |-> [distances |-> Put(EmptyMap, start, 0),
                        previous  |-> EmptyMap,
                        pq        |-> Enqueued("distanceAsc", <<>>,
                                               [vertex |-> start, distance |-> 0])],
                current |-> Null, k |-> 0, visited |-> {}, steps |-> 0,
                ret |-> [path |-> <<>>, totalCost |-> 0]]
    /\ Unchanged

\* The head of a round of the while loop of lines 177-181, or the exit of
\* the loop.
LoopRound ==
    /\ Running("loop")
    /\ call.steps < MaxSteps
    /\ IF Len(call.st.pq) = 0
       THEN call' = [call EXCEPT !.pc = "reconstruct", !.current = call.end]
       ELSE LET d == Dequeued("distanceAsc", call.st.pq) IN
            IF d.item.vertex = call.end
            THEN call' = [call EXCEPT !.st.pq = d.heap, !.steps = @ + 1,
                                      !.pc = "reconstruct", !.current = call.end]
            ELSE call' = [call EXCEPT !.st.pq = d.heap, !.steps = @ + 1,
                                      !.pc = "relax",
                                      !.current = d.item.vertex, !.k = 1]
    /\ Unchanged

\* One round of the for loop of lines 182-204 over the neighbours of the
\* dequeued vertex, or its exit.
RelaxRound ==
    /\ Running("relax")
    /\ call.steps < MaxSteps
    /\ LET nbrs == IF call.current \in DOMAIN adjacencyList
                   THEN adjacencyList[call.current] ELSE <<>>
       IN  IF call.k > Len(nbrs)
           THEN call' = [call EXCEPT !.pc = "loop", !.current = Null]
           ELSE call' = [call EXCEPT
                            !.st = RelaxOne(nbrs[call.k], call.current,
                                            call.preferredMode, call.st),
                            !.k = @ + 1, !.steps = @ + 1]
    /\ Unchanged

\* One round of the while loop of lines 215-227, or its exit.
ReconstructRound ==
    /\ Running("reconstruct")
    /\ call.steps < MaxSteps
    /\ IF call.current = Null
       THEN call' = [call EXCEPT !.pc = "done"]
       ELSE IF call.current \in DOMAIN call.st.previous
            THEN LET prev == call.st.previous[call.current] IN
                 call' = [call EXCEPT
                     !.ret = [path |-> <<[from |-> prev.vertex, to |-> call.current,
                                          mode |-> prev.mode, cost |-> prev.cost]>>
                                        \o call.ret.path,
                              totalCost |-> call.ret.totalCost + prev.cost],
                     !.visited = @ \cup {call.current},
                     !.current = prev.vertex,
                     !.steps = @ + 1]
            ELSE call' = [call EXCEPT !.visited = @ \cup {call.current},
                                      !.current = Null, !.steps = @ + 1]
    /\ Unchanged

NextWalk ==
    \/ \E e \in WalkEnds, w \in WalkWeights, m \in ReachModes :
           call = NoCall /\ AddEdge(e[1], e[2], w, m)
    \/ \E q \in WalkQueries, p \in ReachModes \cup {Null} :
           StartRoute(q[1], q[2], p)
    \/ LoopRound
    \/ RelaxRound
    \/ ReconstructRound
    \/ (Running("done") /\ Return)

SpecWalk == InitRoute /\ [][NextWalk]_vars

\* The program runs a call to its end: a loop that can make a round makes it.
SpecWalkFair ==
    SpecWalk /\ WF_vars(LoopRound) /\ WF_vars(RelaxRound) /\ WF_vars(ReconstructRound)

(***************************************************************************)
(* The catalogue under test: destinations are loaded one by one, as the    *)
(* forEach of initializeDataStructures does, and the public functions are  *)
(* called on what is loaded.                                               *)
(***************************************************************************)
\* Records of destinationsData (lines 354, 398, 533, 982, 1186), with their first two
\* activities, and one record that repeats a name in another letter case.
Goa ==
    [id |-> 0, name |-> <<"G", "o", "a">>,
     state |-> <<"G", "o", "a">>,
     type |-> <<"B", "e", "a", "c", "h">>,
     popularity |-> 95, cost |-> 15000,
     activities |-> <<"Visit Baga Beach and enjoy water sports", "Explore Old Goa churches and Portuguese architecture">>]
Puri ==
    [id |-> 0, name |-> <<"P", "u", "r", "i">>,
     state |-> <<"O", "d", "i", "s", "h", "a">>,
     type |-> <<"B", "e", "a", "c", "h">>,
     popularity |-> 78, cost |-> 8000,
     activities |-> <<"Visit Jagannath Temple", "Relax at Puri Beach">>]
Hampi ==
    [id |-> 0, name |-> <<"H", "a", "m", "p", "i">>,
     state |-> <<"K", "a", "r", "n", "a", "t", "a", "k", "a">>,
     type |-> <<"H", "e", "r", "i", "t", "a", "g", "e">>,
     popularity |-> 83, cost |-> 11000,
     activities |-> <<"Explore Vijayanagara Empire ruins", "Visit Virupaksha Temple">>]
BodhGaya ==
    [id |-> 0, name |-> <<"B", "o", "d", "h", " ", "G", "a", "y", "a">>,
     state |-> <<"B", "i", "h", "a", "r">>,
     type |-> <<"S", "p", "i", "r", "i", "t", "u", "a", "l">>,
     popularity |-> 74, cost |-> 7000,
     activities |-> <<"Visit Mahabodhi Temple", "Meditate under Bodhi Tree">>]
Pune ==
    [id |-> 0, name |-> <<"P", "u", "n", "e">>,
     state |-> <<"M", "a", "h", "a", "r", "a", "s", "h", "t", "r", "a">>,
     type |-> <<"M", "e", "t", "r", "o", "p", "o", "l", "i", "t", "a", "n">>,
     popularity |-> 85, cost |-> 13000,
     activities |-> <<"Shaniwar Wada", "Aga Khan Palace">>]
GoaAgain ==
    [id |-> 0, name |-> <<"G", "O", "A">>,
     state |-> <<"G", "o", "a">>,
     type |-> <<"B", "e", "a", "c", "h">>,
     popularity |-> 78, cost |-> 9000,
     activities |-> <<"Visit Baga Beach and enjoy water sports">>]

DestinationPool == {Goa, Puri, Hampi, BodhGaya, Pune, GoaAgain}

MaxLoads == 3       \* destinations loaded into the catalogue under test
MaxLimit == 2       \* limits 0..MaxLimit, besides the defaults

\* The arguments the public functions are called with.
LookupNames ==
    {<<>>,
     <<"g", "o", "a">>,
     <<"G", "O", "A">>,
     <<"G", "o", "a">>,
     <<"p", "u", "r", "i">>,
     <<"P", "U", "R", "I">>,
     <<"H", "a", "m", "p", "i">>,
     <<"b", "o", "d", "h", " ", "g", "a", "y", "a">>,
     <<"B", "o", "d", "h", " ", "G", "a", "y", "a">>,
     <<"D", "e", "l", "h", "i">>,
     <<"G", "o">>}
Prefixes ==
    {<<>>,
     <<"g">>,
     <<"G", "O">>,
     <<"G", "o", "a">>,
     <<"g", "o", "a", "x">>,
     <<"p">>,
     <<"P", "U">>,
     <<"P", "u", "r">>,
     <<"h">>,
     <<"b">>,
     <<"B", "O", "D", "H", " ">>,
     <<"x">>}
Queries ==
    {<<>>,
     <<" ">>,
     <<" ", " ">>,
     <<"g">>,
     <<"G", "O", "A">>,
     <<"g", "o", "a", " ", "b", "e", "a", "c", "h">>,
     <<"o", "a">>,
     <<"a">>,
     <<"p", "u">>,
     <<"P", "U", "N", "E">>,
     <<"u", "r", "i">>,
     <<"H", "a", "m", "p", "i">>,
     <<"b", "o", "d", "h">>,
     <<"g", "a", "y", "a">>}
Limits == (0..MaxLimit) \cup {10}
\* Criteria that select (with and without an ordering by cost).
SelectCriteria ==
    [type : {<<>>, <<<<"b", "e", "a", "c", "h">>>>, <<<<"H", "e", "r", "i", "t", "a", "g", "e">>>>},
     state : {<<>>, <<<<"G", "O", "A">>>>},
     maxCost : {<<>>, <<0>>, <<8000>>, <<11000>>},
     minPopularity : {<<>>, <<0>>, <<78>>},
     sortBy : {<<>>, <<"cost">>}]

\* Criteria that order: each sortBy of the switch, one it does not know, none.
SortCriteria ==
    [type : {<<>>, <<<<"b", "e", "a", "c", "h">>>>},
     state : {<<>>},
     maxCost : {<<>>},
     minPopularity : {<<>>},
     sortBy : {<<>>, <<"popularity">>, <<"cost">>, <<"name">>, <<"rating">>}]

CriteriaSet == SelectCriteria \cup SortCriteria

InitCatalog ==
    /\ destinationsData = <<>>
    /\ root = NewTrie
    /\ buckets = EmptyMap /\ size = 0
    /\ adjacencyList = EmptyMap
    /\ heap = <<>> /\ compare = "priorityDesc"
    /\ IdleApp
    /\ call = NoCall

\* The activities of destination, enqueued from the k-th on (lines 1224-1230).
RECURSIVE EnqueueActivities(_, _, _)
EnqueueActivities(h, destination, k) ==
    IF k > Len(destination.activities) THEN h
    ELSE EnqueueActivities(
            Enqueued("priorityDesc", h,
                     [activity |-> destination.activities[k],
                      destination |-> destination.name,
                      priority |-> destination.popularity
                                     + (Len(destination.activities) - (k - 1)) * 2]),
            destination, k + 1)

\* One round of the forEach of initializeDataStructures (lines 1213-1231), for a
\* destination that is the next element of destinationsData.
Load(d) ==
    LET destination == [d EXCEPT !.id = Len(destinationsData) + 1]
        stored == HashSet(buckets, size, destination.name, destination)
    IN  /\ Len(destinationsData) < MaxLoads
        /\ destinationsData' = Append(destinationsData, destination)
        /\ root' = TrieInsert(root, destination.name, destination)
        /\ buckets' = stored.buckets
        /\ size' = stored.size
        /\ adjacencyList' = addVertex(adjacencyList, destination.name)
        /\ heap' = EnqueueActivities(heap, destination, 1)
        /\ call' = NoCall
        /\ UNCHANGED <<compare, apiService, planner, now, added, history, caches>>

GetDestination(name) ==
    /\ call = NoCall
    /\ call' = [op |-> "searchDestination", name |-> name,
                ret |-> searchDestination(buckets, name)]
    /\ buckets' = BucketsAfterGet(buckets, name)
    /\ UNCHANGED <<heap, compare, adjacencyList, size, root, destinationsData,
                   apiService, planner, now, added, history, caches>>

\* searchWithPrefix(prefix); call keeps the paths of the nodes the trie had
\* when it was called.
SearchWithPrefix(prefix) ==
    /\ call = NoCall
    /\ call' = [op |-> "searchWithPrefix", prefix |-> prefix,
                ret |-> searchWithPrefix(root, prefix),
                nodes |-> DOMAIN root]
    /\ root' = TrieAfterSearch(root, prefix)
    /\ UNCHANGED <<heap, compare, adjacencyList, buckets, size, destinationsData,
                   apiService, planner, now, added, history, caches>>

Search(query, limit) ==
    /\ call = NoCall
    /\ call' = [op |-> "searchDestinations", query |-> query, limit |-> limit,
                ret |-> searchDestinations(destinationsData, root, buckets, query, limit)]
    /\ buckets' = IF Len(query) < 1 THEN buckets ELSE BucketsAfterGet(buckets, query)
    /\ root' = IF Len(query) < 1 THEN root ELSE TrieAfterSearch(root, query)
    /\ UNCHANGED <<heap, compare, adjacencyList, size, destinationsData,
                   apiService, planner, now, added, history, caches>>

GetPopular(limit) ==
    /\ call = NoCall
    /\ call' = [op |-> "getPopularDestinations", limit |-> limit,
                ret |-> getPopularDestinations(destinationsData, limit)]
    /\ destinationsData' = TableAfterSort(destinationsData, destinationsData, "popularity")
    /\ UNCHANGED <<heap, compare, adjacencyList, buckets, size, root,
                   apiService, planner, now, added, history, caches>>

Filter(criteria) ==
    /\ call = NoCall
    /\ call' = [op |-> "filterDestinations", criteria |-> criteria,
                ret |-> filterDestinations(destinationsData, criteria)]
    /\ destinationsData' =
          IF TruthyKeyword(criteria.sortBy)
          THEN TableAfterSort(destinationsData,
                              filterDestinations(destinationsData,
                                                 [criteria EXCEPT !.sortBy = <<>>]),
                              criteria.sortBy[1])
          ELSE destinationsData
    /\ UNCHANGED <<heap, compare, adjacencyList, buckets, size, root,
                   apiService, planner, now, added, history, caches>>

NextCatalog ==
    \/ \E d \in DestinationPool : Load(d)
    \/ \E name \in LookupNames : GetDestination(name)
    \/ \E prefix \in Prefixes : SearchWithPrefix(prefix)
    \/ \E query \in Queries, limit \in Limits : Search(query, limit)
    \/ \E limit \in Limits : GetPopular(limit)
    \/ Return

SpecCatalog == InitCatalog /\ [][NextCatalog]_vars

\* The same catalogue, filtered.
NextFilter ==
    \/ \E d \in DestinationPool : Load(d)
    \/ \E criteria \in CriteriaSet : Filter(criteria)
    \/ Return

SpecFilter == InitCatalog /\ [][NextFilter]_vars

(***************************************************************************)
(* mergeSort under test: it is called on the destination list itself, with  *)
(* each comparator the program uses and with one that is constantly 0.      *)
(***************************************************************************)
Comparators == {"popularity", "cost", "name", "none"}

Sort(by) ==
    LET out == mergeSortAt(by, <<destinationsData>>, 1) IN
    /\ call = NoCall
    /\ call' = [op |-> "mergeSort", by |-> by, arr |-> destinationsData,
                ret |-> out.mem[out.ref]]
    /\ destinationsData' = out.mem[1]
    /\ UNCHANGED <<heap, compare, adjacencyList, buckets, size, root, apiService, planner, now, added, history, caches>>

NextSort ==
    \/ \E d \in DestinationPool : Load(d)
    \/ \E by \in Comparators : Sort(by)
    \/ Return

SpecSort == InitCatalog /\ [][NextSort]_vars

(***************************************************************************)
(* The activity queue under test: destinations are loaded and the top       *)
(* activities are asked for, any number of times.                           *)
(***************************************************************************)
TopActivities(count) ==
    LET out == getTopActivities(heap, count) IN
    /\ call = NoCall
    /\ call' = [op |-> "getTopActivities", count |-> count, before |-> heap,
                ret |-> out.ret]
    /\ heap' = out.heap
    /\ UNCHANGED <<compare, adjacencyList, buckets, size, root, destinationsData, apiService, planner, now, added, history, caches>>

NextActivities ==
    \/ \E d \in DestinationPool : Load(d)
    \/ \E count \in Limits : TopActivities(count)
    \/ Return

SpecActivities == InitCatalog /\ [][NextActivities]_vars

(***************************************************************************)
(* The hash map under test: set is called with keys in both letter cases,   *)
(* keys that share a bucket ("ab" and "bb": the first character has weight  *)
(* 0 in _hash) and the empty key.                                          *)
(***************************************************************************)
StoreKeys ==
    {<<>>,
     <<"a", "b">>,
     <<"A", "B">>,
     <<"b", "b">>,
     <<"B", "b">>,
     <<"a", "c">>}
StoreValues == {"v1", "v2"}

\* set(key, value); call keeps the buckets and the size as they were when it
\* was called.
SetKey(key, value) ==
    LET stored == HashSet(buckets, size, key, value) IN
    /\ buckets' = stored.buckets
    /\ size' = stored.size
    /\ call' = [op |-> "set", key |-> key, value |-> value,
                before |-> [buckets |-> buckets, size |-> size]]
    /\ UNCHANGED <<heap, compare, adjacencyList, root, destinationsData, apiService, planner, now, added, history, caches>>

NextStore ==
    \E key \in StoreKeys, value \in StoreValues : SetKey(key, value)

SpecStore == InitCatalog /\ [][NextStore]_vars

(***************************************************************************)
(* Initialization (src/destinations.js 1212-1252, 1374): the table          *)
(* destinationsData is there when the script runs, with names that are all  *)
(* different, and initializeDataStructures runs once.  The tables of the   *)
(* model hold up to MaxLoads destinations of the source's table.           *)
(***************************************************************************)
TablePool == {Goa, Puri, Hampi, BodhGaya, Pune}

TablesOfLength(n) ==
    {[i \in 1..n |-> [t[i] EXCEPT !.id = i]] :
        t \in {u \in [1..n -> TablePool] : \A i, j \in 1..n : i # j => u[i] # u[j]}}

Tables == UNION {TablesOfLength(n) : n \in 0..MaxLoads}

\* calculateDistance (lines 1255-1265) of the coordinates of two destinations
\* of the pool (lines 371, 415, 550, 999, 1186), in km, to the even km.
HaversineKm(dist1, dist2) ==
    LET pair == {dist1.name, dist2.name} IN
    CASE pair = {Goa.name, Puri.name}       -> 1338
      [] pair = {Goa.name, Hampi.name}      -> 250
      [] pair = {Goa.name, BodhGaya.name}   -> 1542
      [] pair = {Goa.name, Pune.name}       -> 360
      [] pair = {Puri.name, Hampi.name}     -> 1110
      [] pair = {Puri.name, BodhGaya.name}  -> 550
      [] pair = {Puri.name, Pune.name}      -> 1266
      [] pair = {Hampi.name, BodhGaya.name} -> 1370
      [] pair = {Hampi.name, Pune.name}     -> 450
      [] pair = {BodhGaya.name, Pune.name}  -> 1340
      [] OTHER                              -> 0

\* The forEach of lines 1213-1231 from the k-th destination on; st is
\* (root, buckets, size, adjacencyList, heap).
RECURSIVE LoadFrom(_, _, _)
LoadFrom(st, data, k) ==
    IF k > Len(data) THEN st
    ELSE LET destination == data[k]
             stored == HashSet(st.buckets, st.size, destination.name, destination)
         IN  LoadFrom([root          |-> TrieInsert(st.root, destination.name, destination),
                       buckets       |-> stored.buckets,
                       size          |-> stored.size,
                       adjacencyList |-> addVertex(st.adjacencyList, destination.name),
                       heap          |-> EnqueueActivities(st.heap, destination, 1)],
                      data, k + 1)

\* A mutant of ConnectPair: no car edge is added.
ConnectPairNoCar(adj, dist1, dist2) ==
    LET distance == HaversineKm(dist1, dist2)
        flight == addEdge(adj, dist1.name, dist2.name, distance, "flight")
    IN  addEdge(flight, dist1.name, dist2.name, (distance * 3) \div 2, "train")

\* The three addEdge calls of lines 1247-1249 for two names at a distance.
ThreeEdges(adj, name1, name2, distance) ==
    LET flight == addEdge(adj, name1, name2, distance, "flight")
        train == addEdge(flight, name1, name2, (distance * 3) \div 2, "train")
    IN  addEdge(train, name1, name2, distance * 2, "car")

\* The body of the loops of lines 1235-1251 for one pair of destinations.
ConnectPair(adj, dist1, dist2) ==
    ThreeEdges(adj, dist1.name, dist2.name, HaversineKm(dist1, dist2))

\* The loops of lines 1235-1251 from the pair (i, j) on, 0-based.
RECURSIVE ConnectFrom(_, _, _, _)
ConnectFrom(adj, data, i, j) ==
    IF i >= Len(data) THEN adj
    ELSE IF j >= Len(data) THEN ConnectFrom(adj, data, i + 1, i + 2)
    ELSE ConnectFrom(ConnectPair(adj, data[i + 1], data[j + 1]), data, i, j + 1)

InitBoot ==
    /\ destinationsData \in Tables
    /\ root = NewTrie
    /\ buckets = EmptyMap /\ size = 0
    /\ adjacencyList = EmptyMap
    /\ heap = <<>> /\ compare = "priorityDesc"
    /\ IdleApp
    /\ call = NoCall

\* initializeDataStructures()
Initialize ==
    LET loaded == LoadFrom([root |-> root, buckets |-> buckets, size |-> size,
                            adjacencyList |-> adjacencyList, heap |-> heap],
                           destinationsData, 1)
    IN  /\ call = NoCall
        /\ root' = loaded.root
        /\ buckets' = loaded.buckets
        /\ size' = loaded.size
        /\ heap' = loaded.heap
        /\ adjacencyList' = ConnectFrom(loaded.adjacencyList, destinationsData, 0, 1)
        /\ call' = [op |-> "initializeDataStructures"]
        /\ UNCHANGED <<compare, destinationsData, apiService, planner, now, added, history, caches>>

NextBoot == Initialize

SpecBoot == InitBoot /\ [][NextBoot]_vars

(***************************************************************************)
(* The program after its script has run: initializeDataStructures has       *)
(* filled the structures from the table, and the public functions that      *)
(* answer queries are called in any order.                                  *)
(***************************************************************************)
InitServe ==
    /\ destinationsData \in Tables
    /\ LET loaded == LoadFrom([root |-> NewTrie, buckets |-> EmptyMap, size |-> 0,
                               adjacencyList |-> EmptyMap, heap |-> <<>>],
                              destinationsData, 1)
       IN  /\ root = loaded.root
           /\ buckets = loaded.buckets
           /\ size = loaded.size
           /\ heap = loaded.heap
           /\ adjacencyList = ConnectFrom(loaded.adjacencyList, destinationsData, 0, 1)
    /\ compare = "priorityDesc"
    /\ IdleApp
    /\ call = NoCall

ServeModes == {Null, "flight", "train", "car"}

NextServe ==
    \/ \E name \in LookupNames : GetDestination(name)
    \/ \E query \in Queries, limit \in Limits : Search(query, limit)
    \/ \E limit \in Limits : GetPopular(limit)
    \/ \E criteria \in CriteriaSet : Filter(criteria)
    \/ \E i, j \in 1..Len(destinationsData), p \in ServeModes :
           FindRoute(destinationsData[i].name, destinationsData[j].name, p)
    \/ Return

SpecServe == InitServe /\ [][NextServe]_vars

(***************************************************************************)
(* The graph of the initializer over three destinations A, B, C at any      *)
(* distances above 0 that satisfy the triangle inequality (even, so that    *)
(* 1.5 d is whole), the degenerate triangles included, asked for routes.    *)
(***************************************************************************)
MeshVertices == {"A", "B", "C"}
MeshDistances == {2 * k : k \in 1..MaxWeight}

InitMesh ==
    /\ \E dAB, dAC, dBC \in MeshDistances :
          /\ dAB <= dAC + dBC /\ dAC <= dAB + dBC /\ dBC <= dAB + dAC
          /\ adjacencyList =
                ThreeEdges(
                    ThreeEdges(
                        ThreeEdges(addVertex(addVertex(addVertex(EmptyMap, "A"), "B"), "C"),
                                   "A", "B", dAB),
                        "A", "C", dAC),
                    "B", "C", dBC)
    /\ IdleQueue /\ IdleStore /\ IdleData
    /\ IdleApp
    /\ call = NoCall

NextMesh ==
    \/ \E start, end \in MeshVertices, p \in ServeModes : FindRoute(start, end, p)
    \/ Return

SpecMesh == InitMesh /\ [][NextMesh]_vars

(***************************************************************************)
(* The optimal-modes lookup under test, for every whole distance up to      *)
(* MaxDistance km.                                                          *)
(***************************************************************************)
MaxDistance == 1600

OptimalModes(distance) ==
    /\ call = NoCall
    /\ call' = [op |-> "getOptimalTransportModes", distance |-> distance,
                ret |-> getOptimalTransportModes(distance)]
    /\ Unchanged

NextModes ==
    \/ \E distance \in 0..MaxDistance : OptimalModes(distance)
    \/ Return

SpecModes == InitRoute /\ [][NextModes]_vars

(***************************************************************************)
(* The API service under test: searches are called, as loadRealTimeData    *)
(* calls them (src/script.js 415-419), and the network answers each await  *)
(* as it likes; time passes.                                               *)
(***************************************************************************)
MaxCalls == 2          \* searches in flight
MaxElapsed == 2700000  \* milliseconds the service is followed for

Configs == [amadeus : [enabled : BOOLEAN], googlePlaces : [enabled : BOOLEAN]]
Cities == {"Goa"}
Searches == {"searchHotels", "searchPlaces", "searchRestaurants"}
Elapse == {900000, 1800000}

\* The bodies a response parses to.
HotelBodies ==
    { NullObject,
      [errors |-> <<>>],
      [data |-> <<>>],
      [data |-> <<[hotel |-> [name |-> "Taj", rating |-> 5]]>>],
      [data |-> <<[hotel |-> [name |-> "Inn"]], [offers |-> <<>>]>>] }
PlaceBodies ==
    { NullObject,
      [status |-> "REQUEST_DENIED"],
      [results |-> <<>>],
      [results |-> <<[name |-> "Fort", rating |-> 46,
                      formatted_address |-> "Fort Road", place_id |-> "p1"]>>],
      [results |-> <<NullObject>>] }
Bodies(op) == IF op = "searchHotels" THEN HotelBodies ELSE PlaceBodies

InitApi ==
    /\ \E config \in Configs : apiService = NewAPIService(config)
    /\ planner = NewPlanner
    /\ now = StartTime
    /\ added = <<>>
    /\ history = <<>>
    /\ caches = NoCaches
    /\ IdleQueue /\ IdleGraph /\ IdleStore /\ IdleData
    /\ call = NoCall

ApiUnchanged ==
    UNCHANGED <<heap, compare, adjacencyList, buckets, size, root, destinationsData,
                call, planner, added, history, caches>>

At(i, pc) == i \in 1..Len(apiService.calls) /\ apiService.calls[i].pc = pc

\* searchHotels(city, ...), searchPlaces(city), searchRestaurants(city) is called.
CallSearch(op, city) ==
    /\ Len(apiService.calls) < MaxCalls
    /\ apiService' = [apiService EXCEPT !.calls =
           Append(@, Called(apiService.config, apiService.cache, now, op, city))]
    /\ UNCHANGED now
    /\ ApiUnchanged

\* The fetch of getAmadeusToken settles (lines 117-129): it rejects, or the
\* response is not OK, or it is OK and is parsed next.
TokenResponse(i, answer) ==
    /\ At(i, "tokenFetch")
    /\ apiService' = [apiService EXCEPT !.calls[i] =
           IF answer = "ok" THEN [@ EXCEPT !.pc = "tokenJson"] ELSE Thrown(@)]
    /\ UNCHANGED now
    /\ ApiUnchanged

\* response.json() of getAmadeusToken settles (lines 131-137): it rejects, or
\* the token is cached with the time and returned, and the request is sent.
TokenParsed(i, answer) ==
    /\ At(i, "tokenJson")
    /\ IF answer = "ok"
       THEN apiService' = [apiService EXCEPT
                !.cache = [token |-> "t", timestamp |-> now],
                !.calls[i] = [@ EXCEPT !.pc = "request"]]
       ELSE apiService' = [apiService EXCEPT !.calls[i] = Thrown(@)]
    /\ UNCHANGED now
    /\ ApiUnchanged

\* The fetch of the search settles (lines 30-40, 64-68, 92-96).
Response(i, answer) ==
    /\ At(i, "request")
    /\ apiService' = [apiService EXCEPT !.calls[i] =
           IF answer = "ok" THEN [@ EXCEPT !.pc = "json"] ELSE Thrown(@)]
    /\ UNCHANGED now
    /\ ApiUnchanged

\* response.json() of the search rejects (lines 42, 70, 98).
ParseFails(i) ==
    /\ At(i, "json")
    /\ apiService' = [apiService EXCEPT !.calls[i] = Thrown(@)]
    /\ UNCHANGED now
    /\ ApiUnchanged

\* response.json() of the search gives body, which is formatted and returned
\* (lines 42-43, 70-71, 98-99).
Parsed(i, body) ==
    /\ At(i, "json")
    /\ body \in Bodies(apiService.calls[i].op)
    /\ LET formatted == Format(apiService.calls[i].op, body) IN
       apiService' = [apiService EXCEPT !.calls[i] =
           IF formatted.throws THEN Thrown(@) ELSE Resolved(@, formatted.value)]
    /\ UNCHANGED now
    /\ ApiUnchanged

\* The caller of a settled search goes on with what it got.
Taken(i) ==
    /\ At(i, "settled")
    /\ apiService' = [apiService EXCEPT !.calls =
           SubSeq(@, 1, i - 1) \o SubSeq(@, i + 1, Len(@))]
    /\ UNCHANGED now
    /\ ApiUnchanged

Tick(d) ==
    /\ now + d <= StartTime + MaxElapsed
    /\ now' = now + d
    /\ UNCHANGED apiService
    /\ ApiUnchanged

NextApi ==
    \/ \E op \in Searches, city \in Cities : CallSearch(op, city)
    \/ \E i \in 1..MaxCalls, answer \in {"rejects", "notOk", "ok"} : TokenResponse(i, answer)
    \/ \E i \in 1..MaxCalls, answer \in {"rejects", "ok"} : TokenParsed(i, answer)
    \/ \E i \in 1..MaxCalls, answer \in {"rejects", "notOk", "ok"} : Response(i, answer)
    \/ \E i \in 1..MaxCalls : ParseFails(i)
    \/ \E i \in 1..MaxCalls, body \in HotelBodies \cup PlaceBodies : Parsed(i, body)
    \/ \E i \in 1..MaxCalls : Taken(i)
    \/ \E d \in Elapse : Tick(d)

SpecApi == InitApi /\ [][NextApi]_vars

(***************************************************************************)
(* The planner under test: the user picks an origin and a destination,     *)
(* changes the optimization mode, adds segments, and uses the controls of  *)
(* the segment cards the page shows.                                       *)
(***************************************************************************)
MaxSegments == 3   \* segments of the plan
MaxCounter == 3    \* segmentCounter, while routes are optimized
MaxWait == 900000  \* milliseconds the planner is followed for

Origins == {"Delhi", "Xyz"}
Destinations == {"Jaipur"}

InitPlanner ==
    /\ planner = NewPlanner
    /\ apiService = NewAPIService(API_CONFIG)
    /\ now = StartTime
    /\ added = <<>>
    /\ history = <<>>
    /\ caches = NoCaches
    /\ IdleQueue /\ IdleGraph /\ IdleStore /\ IdleData
    /\ call = NoCall

PlannerUnchanged ==
    UNCHANGED <<heap, compare, adjacencyList, buckets, size, root, destinationsData,
                apiService, history, caches>>

Ids(segments) == [k \in 1..Len(segments) |-> segments[k].id]

\* The ids without the one the k-th card shows.
RECURSIVE WithoutShown(_, _)
WithoutShown(ids, shown) ==
    IF ids = <<>> THEN <<>>
    ELSE IF DatasetId(Head(ids)) = shown THEN Tail(ids)
         ELSE <<Head(ids)>> \o WithoutShown(Tail(ids), shown)

\* A click on a suggestion of the origin field (lines 249-252).
SelectOrigin(originName) ==
    /\ planner.segmentCounter < MaxCounter
    /\ planner' = handleOriginSelect(planner, originName)
    /\ added' = Ids(planner'.segments)
    /\ call' = [op |-> "handleOriginSelect"]
    /\ UNCHANGED now
    /\ PlannerUnchanged

\* A click on a suggestion of the destination field.
SelectDestination(destName) ==
    /\ planner.segmentCounter < MaxCounter
    /\ planner' = handleDestinationSelect(planner, destName, now)
    /\ added' = Ids(planner'.segments)
    /\ call' = [op |-> "handleDestinationSelect"]
    /\ UNCHANGED now
    /\ PlannerUnchanged

\* The optimization mode is changed (lines 196-201).
ChangeOptimizationMode ==
    /\ planner.segmentCounter < MaxCounter
    /\ planner' = IF planner.origin # "" /\ planner.destination # ""
                  THEN optimizeTransportRoute(planner) ELSE planner
    /\ added' = Ids(planner'.segments)
    /\ call' = [op |-> "optimizationMode"]
    /\ UNCHANGED now
    /\ PlannerUnchanged

\* A click on Add Segment (lines 191-193).
ClickAddSegment ==
    /\ Len(planner.segments) < MaxSegments /\ Len(added) < MaxSegments
    /\ planner' = addSegment(planner, now)
    /\ added' = Append(added, TimeId(now))
    /\ call' = [op |-> "addSegment"]
    /\ UNCHANGED now
    /\ PlannerUnchanged

\* A click on the remove button of the k-th card shown (lines 769-772).
ClickRemove(k) ==
    /\ k \in 1..Len(planner.transportationSegments)
    /\ planner' = removeSegment(planner, planner.transportationSegments[k])
    /\ added' = WithoutShown(added, planner.transportationSegments[k])
    /\ call' = [op |-> "removeSegment", card |-> k]
    /\ UNCHANGED now
    /\ PlannerUnchanged

\* The mode select of the k-th card shown is changed: its input and change
\* events (lines 773-782).
ChangeMode(k, mode) ==
    /\ k \in 1..Len(planner.transportationSegments)
    /\ planner' = updateTransportationSection(
                      updateSegment(planner, planner.transportationSegments[k],
                                    "mode", mode))
    /\ call' = [op |-> "updateSegment", card |-> k]
    /\ UNCHANGED <<now, added>>
    /\ PlannerUnchanged

\* Time passes between two actions of the user.
PlannerTick(d) ==
    /\ now + d <= StartTime + MaxWait
    /\ now' = now + d
    /\ call' = NoCall
    /\ UNCHANGED <<planner, added>>
    /\ PlannerUnchanged

NextPlanner ==
    \/ \E originName \in Origins : SelectOrigin(originName)
    \/ \E destName \in Destinations : SelectDestination(destName)
    \/ ChangeOptimizationMode
    \/ ClickAddSegment
    \/ \E k \in 1..MaxSegments : ClickRemove(k)
    \/ \E k \in 1..MaxSegments : ChangeMode(k, "bus")
    \/ \E d \in Elapse : PlannerTick(d)

SpecPlanner == InitPlanner /\ [][NextPlanner]_vars

(***************************************************************************)
(* The planner and its real-time loads: handleDestinationSelect starts      *)
(* loadRealTimeData, an async function that awaits the searches of the API  *)
(* service and writes accommodation and activities when they are settled,   *)
(* which the network decides.  The planner has the fields accommodation     *)
(* and activities, and loading, the destinations of the loads that await;   *)
(* history holds the selections and the completions as they happened.       *)
(***************************************************************************)
MaxSelects == 3    \* destinations selected while loads are followed

LoadDestinations == {"Jaipur", "Goa"}

Merged(p, q) == [f \in DOMAIN p \cup DOMAIN q |-> IF f \in DOMAIN q THEN q[f] ELSE p[f]]

LoadingPlanner ==
    Merged(NewPlanner, [accommodation |-> <<>>, activities |-> <<>>, loading |-> <<>>])

\* updateAccommodationFromAPI (lines 441-449): the text made of the hotels
\* found for a destination.
AccommodationFor(destName) == <<"Recommended Hotels", destName>>

\* updateActivitiesFromAPI (lines 451-469): the text made of the places and
\* restaurants found for a destination.
ActivitiesFor(destName) == <<"Visit and dine", destName>>

\* loadRealTimeData (lines 409-439) up to its await: the load is outstanding.
loadRealTimeData(p, destName) == [p EXCEPT !.loading = Append(@, destName)]

\* loadRealTimeData after its await, for the k-th outstanding load: the
\* searches gave hotels and places of its destination (the fallback lists
\* of the API service are never empty), and the fields are written.
loadSettled(p, k) ==
    [p EXCEPT !.accommodation = AccommodationFor(p.loading[k]),
              !.activities = ActivitiesFor(p.loading[k]),
              !.loading = SubSeq(@, 1, k - 1) \o SubSeq(@, k + 1, Len(@))]

InitLoads ==
    /\ planner = LoadingPlanner
    /\ apiService = NewAPIService(API_CONFIG)
    /\ now = StartTime
    /\ added = <<>>
    /\ history = <<>>
    /\ caches = NoCaches
    /\ IdleQueue /\ IdleGraph /\ IdleStore /\ IdleData
    /\ call = NoCall

\* A click on a suggestion of the destination field.
SelectAndLoad(destName) ==
    /\ Cardinality({k \in 1..Len(history) : history[k].event = "select"}) < MaxSelects
    /\ planner' = handleDestinationSelect(loadRealTimeData(planner, destName), destName, now)
    /\ history' = Append(history, [event |-> "select", destName |-> destName,
                                   outstanding |-> Len(planner.loading)])
    /\ call' = [op |-> "handleDestinationSelect"]
    /\ UNCHANGED <<heap, compare, adjacencyList, buckets, size, root, destinationsData,
                   apiService, now, added, caches>>

\* The searches the k-th outstanding load awaits are settled.
LoadSettles(k) ==
    /\ k \in 1..Len(planner.loading)
    /\ planner' = loadSettled(planner, k)
    /\ history' = Append(history, [event |-> "settled", destName |-> planner.loading[k],
                                   outstanding |-> Len(planner.loading)])
    /\ call' = [op |-> "loadRealTimeData"]
    /\ UNCHANGED <<heap, compare, adjacencyList, buckets, size, root, destinationsData,
                   apiService, now, added, caches>>

NextLoads ==
    \/ \E destName \in LoadDestinations : SelectAndLoad(destName)
    \/ \E k \in 1..MaxSelects : LoadSettles(k)

SpecLoads == InitLoads /\ [][NextLoads]_vars

(***************************************************************************)
(* Claims about find_route (C1, C2).                                       *)
(***************************************************************************)
\* The edge records from u to v.
EdgesTo(adj, u, v) ==
    IF u \in DOMAIN adj
    THEN {adj[u][i] : i \in {j \in 1..Len(adj[u]) : adj[u][j].destination = v}}
    ELSE {}

Lightest(E) == {e \in E : \A f \in E : e.weight <= f.weight}

RouteCall(start, end) ==
    /\ call.op = "findShortestPath"
    /\ call.start = start
    /\ call.end = end

HopCosts(path) == [i \in 1..Len(path) |-> path[i].cost]

\* The graph is the triangle of the claim: one edge A-B, one A-C, one C-B.
Triangle ==
    /\ Cardinality(EdgesTo(adjacencyList, "A", "B")) = 1
    /\ Cardinality(EdgesTo(adjacencyList, "A", "C")) = 1
    /\ Cardinality(EdgesTo(adjacencyList, "C", "B")) = 1
    /\ EdgeCount(adjacencyList) = 3

TheEdge(u, v) == CHOOSE e \in EdgesTo(adjacencyList, u, v) : TRUE

ViaC(ac, cb) ==
    /\ call.ret.path = <<[from |-> "A", to |-> "C", mode |-> ac.mode, cost |-> ac.cost],
                         [from |-> "C", to |-> "B", mode |-> cb.mode, cost |-> cb.cost]>>
    /\ call.ret.totalCost = ac.cost + cb.cost

\* C1 as stated: on a graph with edges A-B, A-C and C-B, find_route(A, B) with
\* no preferred mode returns A->C->B, with total_cost = cost(A-C) + cost(C-B),
\* whenever cost(A-C) + cost(C-B) is below the cost of the direct A-B edge.
C1_CheaperCostTakesDetour ==
    (/\ RouteCall("A", "B") /\ call.preferredMode = Null
     /\ Triangle
     /\ TheEdge("A", "C").cost + TheEdge("C", "B").cost < TheEdge("A", "B").cost)
    => ViaC(TheEdge("A", "C"), TheEdge("C", "B"))

\* C1 amended: on a graph over A, B, C with edges A-B, A-C and C-B,
\* find_route(A, B) with no preferred mode returns A->C->B over a lightest A-C
\* and a lightest C-B edge, with total_cost the sum of the two hops' costs,
\* whenever the lightest A-C weight plus the lightest C-B weight is below the
\* weight of every direct A-B edge (the route minimises weight, not cost).
C1_LighterWeightTakesDetour ==
    LET AB == EdgesTo(adjacencyList, "A", "B")
        AC == EdgesTo(adjacencyList, "A", "C")
        CB == EdgesTo(adjacencyList, "C", "B")
    IN  (/\ RouteCall("A", "B") /\ call.preferredMode = Null
         /\ AB # {} /\ AC # {} /\ CB # {}
         /\ \E ac \in Lightest(AC), cb \in Lightest(CB) :
               \A ab \in AB : ac.weight + cb.weight < ab.weight)
        => \E ac \in Lightest(AC), cb \in Lightest(CB) : ViaC(ac, cb)

\* C1's case: the detour is lighter than a direct edge of positive cost, and
\* the route asked for comes back over C.
C1_Witness ==
    /\ RouteCall("A", "B") /\ call.preferredMode = Null
    /\ Triangle
    /\ TheEdge("A", "C").weight + TheEdge("C", "B").weight < TheEdge("A", "B").weight
    /\ TheEdge("A", "C").weight + TheEdge("C", "B").weight > 0
    /\ TheEdge("A", "C").mode # TheEdge("A", "B").mode
    /\ Len(call.ret.path) = 2

\* A hop of a returned path is an edge record of the graph, at its true cost.
HopIsEdge(hop) ==
    \E e \in EdgesTo(adjacencyList, hop.from, hop.to) :
        /\ e.mode = hop.mode
        /\ e.cost = hop.cost
        /\ hop.cost = calculateCost(e.mode, e.weight)

\* C2: total_cost is the sum of the undiscounted costs (rate[mode] x weight) of
\* exactly the hops returned, whatever the preferred mode.
C2_TotalCostIsUndiscountedSum ==
    call.op = "findShortestPath" =>
        /\ call.ret.totalCost = SumSeq(HopCosts(call.ret.path))
        /\ \A i \in 1..Len(call.ret.path) : HopIsEdge(call.ret.path[i])

\* C2's case: the preference changes the path chosen (the route without it is
\* another one), a hop of the preferred mode is on the path, and costs are not 0.
C2_Witness ==
    /\ call.op = "findShortestPath"
    /\ call.preferredMode # Null
    /\ call.ret.path # findShortestPath(adjacencyList, call.start, call.end, Null).path
    /\ Len(call.ret.path) = 2
    /\ \E i \in 1..Len(call.ret.path) :
          call.ret.path[i].mode = call.preferredMode /\ call.ret.path[i].cost > 0
    /\ call.ret.totalCost > call.ret.path[1].cost

(***************************************************************************)
(* Claims about the priority queue (C3).                                   *)
(***************************************************************************)
\* s is in non-decreasing order under the comparator cmp.
OrderedBy(cmp, s) ==
    \A i \in 1..Len(s) - 1 : Compare(cmp, s[i], s[i + 1]) <= 0

\* C3: after any sequence of enqueue and dequeue operations, repeatedly
\* dequeuing until the queue is empty yields the remaining items in
\* non-decreasing order under the queue's comparator (non-increasing priority
\* for the reversed comparator).
C3_DrainIsOrdered ==
    LET drained == DrainAll(compare, heap) IN
    /\ Len(drained) = Len(heap)
    /\ OrderedBy(compare, drained)
    /\ compare = "priorityDesc" =>
          \A i \in 1..Len(drained) - 1 : drained[i].priority >= drained[i + 1].priority

\* C3's case: a dequeue has just left at least three items of distinct
\* priorities in a max-heap, whose array is not itself in priority order.
C3_Witness ==
    /\ call.op = "dequeue" /\ call.ret # NullObject
    /\ compare = "priorityDesc"
    /\ Len(heap) >= 3
    /\ Cardinality({heap[i].priority : i \in 1..Len(heap)}) >= 3
    /\ ~OrderedBy(compare, heap)

(***************************************************************************)
(* Claims about the Keyed Store and the Lexicon Index (C4, C5).            *)
(***************************************************************************)
ToUpperCase(str) ==
    [i \in 1..Len(str) |->
        IF str[i] \in Range(LowerCase) THEN UpperCase[IndexIn(LowerCase, str[i])]
        ELSE str[i]]

\* A string as given, in lower case, in upper case and with only its first
\* character in lower case.
CaseVariants(str) ==
    {str, ToLowerCase(str), ToUpperCase(str),
     [i \in 1..Len(str) |-> IF i = 1 THEN ToLowerCase(str)[i] ELSE ToUpperCase(str)[i]]}

SameName(a, b) == ToLowerCase(a) = ToLowerCase(b)

\* No destination was loaded after the i-th under the same name.
NotOverwritten(i) ==
    \A j \in (i + 1)..Len(destinationsData) :
        ~SameName(destinationsData[j].name, destinationsData[i].name)

NeverInserted(name) ==
    \A i \in 1..Len(destinationsData) : ~SameName(destinationsData[i].name, name)

\* C4: get_destination(D.name), in any letter case, returns exactly D for every
\* destination D inserted under D.name (and holding that name since: names are
\* unique in the destination table), and the not-found value for a name that
\* was never inserted.
C4_LookupReturnsInserted ==
    /\ call = NoCall =>
          /\ \A i \in 1..Len(destinationsData) :
                NotOverwritten(i) =>
                    \A name \in CaseVariants(destinationsData[i].name) :
                        searchDestination(buckets, name) = destinationsData[i]
          /\ \A name \in LookupNames :
                NeverInserted(name) => searchDestination(buckets, name) = NullObject
    /\ call.op = "searchDestination" =>
          /\ NeverInserted(call.name) => call.ret = NullObject
          /\ \A i \in 1..Len(destinationsData) :
                NotOverwritten(i) /\ SameName(destinationsData[i].name, call.name)
                    => call.ret = destinationsData[i]

\* C4's case: a destination is looked up in another letter case than it was
\* inserted in, and found in a bucket it shares with another key.
C4_Witness ==
    /\ call.op = "searchDestination"
    /\ call.ret # NullObject
    /\ call.ret.name # call.name
    /\ Len(buckets[Hash(ToLowerCase(call.name))]) = 2
    /\ size = 3

Prefix(str, k) == SubSeq(str, 1, k)

IsPrefix(p, str) == Len(p) <= Len(str) /\ SubSeq(str, 1, Len(p)) = p

\* The entries of a prefix search include one for the i-th destination.
HasEntryFor(entries, i) ==
    \E k \in 1..Len(entries) :
        /\ entries[k].name = ToLowerCase(destinationsData[i].name)
        /\ SameName(entries[k].data.name, destinationsData[i].name)
        /\ NotOverwritten(i) => entries[k].data = destinationsData[i]

\* C5: for every name inserted and every prefix P of it, in any letter case,
\* the empty prefix and the full name included, search_with_prefix(P) includes
\* an entry for that destination.
C5_PrefixSearchIsComplete ==
    /\ call = NoCall =>
          \A i \in 1..Len(destinationsData) :
              \A k \in 0..Len(destinationsData[i].name) :
                  \A P \in {Prefix(destinationsData[i].name, k),
                            ToUpperCase(Prefix(destinationsData[i].name, k))} :
                      HasEntryFor(searchWithPrefix(root, P), i)
    /\ call.op = "searchWithPrefix" =>
          \A i \in 1..Len(destinationsData) :
              IsPrefix(ToLowerCase(call.prefix), ToLowerCase(destinationsData[i].name))
                  => HasEntryFor(call.ret, i)

\* C5's case: a proper, non-empty prefix in another letter case finds two names.
C5_Witness ==
    /\ call.op = "searchWithPrefix"
    /\ call.prefix # <<>>
    /\ call.prefix # ToLowerCase(call.prefix)
    /\ Len(call.ret) >= 2
    /\ \A k \in 1..Len(call.ret) : Len(call.ret[k].name) > Len(call.prefix)

(***************************************************************************)
(* Claims about search (C6, C7, C8).                                       *)
(***************************************************************************)
SearchCall == call.op = "searchDestinations"

\* The destination's name contains the query, or the query contains the name.
SubstringRelated(query, dest) ==
    \/ Includes(ToLowerCase(dest.name), ToLowerCase(query))
    \/ Includes(ToLowerCase(query), ToLowerCase(dest.name))

LeadingRun(query, dest) == CommonStart(ToLowerCase(query), ToLowerCase(dest.name), 0)

\* C6: search(query, limit) includes, up to truncation at limit, every
\* destination whose lowercased name contains the lowercased query or is
\* contained in it, whatever the length of the (non-empty) query; one that only
\* shares a leading run with the query is included only when the run is >= 2.
C6_SubstringMatchesIncluded ==
    (SearchCall /\ call.query # <<>>) =>
        /\ Len(call.ret) < call.limit =>
              \A i \in 1..Len(destinationsData) :
                  SubstringRelated(call.query, destinationsData[i])
                      => destinationsData[i] \in Range(call.ret)
        /\ \A k \in 1..Len(call.ret) :
              ~SubstringRelated(call.query, call.ret[k])
                  => LeadingRun(call.query, call.ret[k]) >= 2

\* The union of the exact, prefix and fuzzy matches of a query.
Matches(query) ==
    Range(ExactMatches(buckets, query))
        \cup Range(PrefixMatches(root, query))
        \cup Range(FuzzyMatches(destinationsData, query))

\* ret holds the limit most popular members of U, most popular first, each once.
TopByPopularity(ret, U, limit) ==
    /\ \A i, j \in 1..Len(ret) : i # j => ret[i] # ret[j]
    /\ \A i \in 1..Len(ret) - 1 : ret[i].popularity >= ret[i + 1].popularity
    /\ Len(ret) <= limit
    /\ Len(ret) = Min(limit, Cardinality(U))
    /\ Range(ret) \subseteq U
    /\ \A x \in U \ Range(ret) : \A k \in 1..Len(ret) : x.popularity <= ret[k].popularity

\* C7 as stated: for every query and limit >= 0, search returns the limit most
\* popular members of the union of the exact, prefix and fuzzy matches, in
\* non-increasing popularity order, without a destination twice.
C7_SearchIsTopOfMatches ==
    SearchCall => TopByPopularity(call.ret, Matches(call.query), call.limit)

\* C7 amended: the same, for every non-empty query (for the empty query search
\* returns the empty sequence, although every destination is a prefix match).
C7_SearchIsTopOfMatchesNonEmpty ==
    (SearchCall /\ call.query # <<>>)
        => TopByPopularity(call.ret, Matches(call.query), call.limit)

\* C7's case: the matches come from the prefix and from the fuzzy step, in
\* another order than their popularity, and are truncated at the limit.
C7_Witness ==
    /\ SearchCall /\ call.query # <<>>
    /\ Cardinality(Matches(call.query)) > call.limit
    /\ call.limit >= 1
    /\ Range(FuzzyMatches(destinationsData, call.query)) # {}
    /\ Range(PrefixMatches(root, call.query)) # {}
    /\ \E i, j \in 1..Len(destinationsData) :
          /\ i < j
          /\ {destinationsData[i], destinationsData[j]} \subseteq Matches(call.query)
          /\ destinationsData[i].popularity < destinationsData[j].popularity

Whitespace(query) == \A i \in 1..Len(query) : query[i] = " "

\* C8: search returns the empty sequence for the empty query and for every
\* query of whitespace characters only.
C8_BlankQueryFindsNothing ==
    (SearchCall /\ Whitespace(call.query)) => call.ret = <<>>

\* C8's case: a query of spaces, while a name with a space in it is loaded.
C8_Witness ==
    /\ SearchCall /\ call.query # <<>> /\ Whitespace(call.query)
    /\ call.limit > 0
    /\ \E i \in 1..Len(destinationsData) : " " \in Range(destinationsData[i].name)
    /\ call.ret = <<>>

(***************************************************************************)
(* Claims about get_popular and filter (C9, C10).                          *)
(***************************************************************************)
\* The sequences of n distinct positions of destinationsData.
Picks(n) ==
    {p \in [1..n -> 1..Len(destinationsData)] : \A i, j \in 1..n : i # j => p[i] # p[j]}

\* C9: get_popular(n) returns exactly min(n, total) names, those of the n most
\* popular destinations of the list, in non-increasing order of popularity.
C9_PopularIsTopN ==
    call.op = "getPopularDestinations" =>
        /\ Len(call.ret) = Min(call.limit, Len(destinationsData))
        /\ \E p \in Picks(Len(call.ret)) :
              /\ \A i \in 1..Len(call.ret) : call.ret[i] = destinationsData[p[i]].name
              /\ \A i \in 1..Len(call.ret) - 1 :
                    destinationsData[p[i]].popularity >= destinationsData[p[i + 1]].popularity
              /\ \A j \in 1..Len(destinationsData) :
                    j \notin Range(p) =>
                        \A i \in 1..Len(call.ret) :
                            destinationsData[j].popularity <= destinationsData[p[i]].popularity

\* C9's case: the list is not in popularity order and is truncated.
C9_Witness ==
    /\ call.op = "getPopularDestinations"
    /\ call.limit = 2
    /\ Len(destinationsData) = 3
    /\ destinationsData[1].popularity < destinationsData[2].popularity
    /\ destinationsData[2].popularity < destinationsData[3].popularity
    /\ Len(call.ret) = 2

\* The predicates supplied in criteria, all satisfied by dest.
Satisfies(dest, criteria) ==
    /\ criteria.type # <<>> => ToLowerCase(dest.type) = ToLowerCase(criteria.type[1])
    /\ criteria.state # <<>> => ToLowerCase(dest.state) = ToLowerCase(criteria.state[1])
    /\ criteria.maxCost # <<>> => dest.cost <= criteria.maxCost[1]
    /\ criteria.minPopularity # <<>> => dest.popularity >= criteria.minPopularity[1]

\* C10: filter(criteria) returns exactly the destinations that satisfy every
\* predicate supplied in criteria (type and state by case-insensitive equality,
\* cost <= max_cost for every supplied max_cost >= 0, popularity >=
\* min_popularity for every supplied min_popularity >= 0), each once.
C10_FilterIsConjunction ==
    call.op = "filterDestinations" =>
        /\ Range(call.ret) =
              {destinationsData[i] : i \in {j \in 1..Len(destinationsData) :
                                              Satisfies(destinationsData[j], call.criteria)}}
        /\ \A i, j \in 1..Len(call.ret) : i # j => call.ret[i] # call.ret[j]

(***************************************************************************)
(* Claims about the order of filter's result and about mergeSort (C11,     *)
(* C12).                                                                   *)
(***************************************************************************)
FilterCall == call.op = "filterDestinations"

\* Lexicographic order of two strings by the codes of their lowercased
\* characters, from index i on.
RECURSIVE AlphabeticLeq(_, _, _)
AlphabeticLeq(a, b, i) ==
    IF i > Len(a) THEN TRUE
    ELSE IF i > Len(b) THEN FALSE
    ELSE IF CharCode(ToLowerCase(a)[i]) < CharCode(ToLowerCase(b)[i]) THEN TRUE
    ELSE IF CharCode(ToLowerCase(a)[i]) > CharCode(ToLowerCase(b)[i]) THEN FALSE
    ELSE AlphabeticLeq(a, b, i + 1)

\* The position of each destination in destinationsData is its id.
InListOrder(ret) == \A i \in 1..Len(ret) - 1 : ret[i].id < ret[i + 1].id

SortKeys == {"popularity", "cost", "name"}

\* C11: filter orders its result by popularity descending, cost ascending or
\* name ascending when sort_by is popularity, cost or name, and keeps the
\* relative order of the destination list when sort_by is unset or is none of
\* the three.
C11_FilterOrder ==
    FilterCall =>
        LET ret == call.ret
            sortBy == call.criteria.sortBy
        IN  /\ sortBy = <<"popularity">> =>
                  \A i \in 1..Len(ret) - 1 : ret[i].popularity >= ret[i + 1].popularity
            /\ sortBy = <<"cost">> =>
                  \A i \in 1..Len(ret) - 1 : ret[i].cost <= ret[i + 1].cost
            /\ sortBy = <<"name">> =>
                  \A i \in 1..Len(ret) - 1 : AlphabeticLeq(ret[i].name, ret[i + 1].name, 1)
            /\ (sortBy = <<>> \/ sortBy[1] \notin SortKeys) => InListOrder(ret)

\* C11's case: three destinations that are in the list neither by cost nor by
\* name, returned by cost, by name, or under a sort_by the switch does not know.
C11_Witness ==
    /\ FilterCall
    /\ call.criteria.sortBy \in {<<"cost">>, <<"rating">>}
    /\ Len(call.ret) = 3
    /\ destinationsData[1].cost > destinationsData[2].cost
    /\ destinationsData[2].cost < destinationsData[3].cost
    /\ ~AlphabeticLeq(destinationsData[1].name, destinationsData[2].name, 1)

SortCall == call.op = "mergeSort"

\* C12: mergeSort returns a permutation of its input that is ordered by the
\* comparator and in which elements comparing equal keep their original
\* relative order, and it leaves the input list unmodified.
C12_MergeSortStablePermutation ==
    SortCall =>
        LET arr == call.arr
            ret == call.ret
        IN  /\ Len(ret) = Len(arr)
            /\ \A i \in 1..Len(arr) : \E k \in 1..Len(ret) : ret[k] = arr[i]
            /\ \A i, j \in 1..Len(ret) : i # j => ret[i] # ret[j]
            /\ \A i, j \in 1..Len(ret) :
                  i < j => CompareDestinations(call.by, ret[i], ret[j]) <= 0
            /\ \A i, j \in 1..Len(ret) :
                  (i < j /\ CompareDestinations(call.by, ret[i], ret[j]) = 0)
                      => ret[i].id < ret[j].id
            /\ destinationsData = arr
            /\ ret = mergeSort(call.by, arr)

\* C12's case: the list is not in popularity order and two destinations
\* compare equal by popularity, on either side of the middle.
C12_Witness ==
    /\ SortCall
    /\ call.by = "popularity"
    /\ Len(call.arr) = 3
    /\ call.arr[1].popularity = call.arr[3].popularity
    /\ call.arr[2].popularity < call.arr[1].popularity
    /\ call.ret # call.arr

(***************************************************************************)
(* Claims about routes that do not exist (C13, C14).                       *)
(***************************************************************************)
\* The vertices reached from the vertices of S over the edges of adj.
RECURSIVE ReachedFrom(_, _)
ReachedFrom(adj, S) ==
    LET step == S \cup UNION {{adj[v][k].destination : k \in 1..Len(adj[v])} :
                              v \in S \cap DOMAIN adj}
    IN  IF step = S THEN S ELSE ReachedFrom(adj, step)

Reachable(adj, start, end) == end \in ReachedFrom(adj, {start})

AnyRouteCall == call.op = "findShortestPath"

NoRoute == [path |-> <<>>, totalCost |-> 0]

\* C13: if end is unreachable from start, or start or end is not a vertex of
\* the graph, find_route returns the empty hop sequence with total_cost = 0.
C13_NoRouteIsEmpty ==
    (AnyRouteCall /\ (\/ call.start \notin DOMAIN adjacencyList
                   \/ call.end \notin DOMAIN adjacencyList
                   \/ ~Reachable(adjacencyList, call.start, call.end)))
        => call.ret = NoRoute

\* C13's case: start and end are vertices with edges, in separate parts.
C13_Witness ==
    /\ AnyRouteCall
    /\ call.start = "A" /\ call.end = "B"
    /\ {"A", "B", "C"} \subseteq DOMAIN adjacencyList
    /\ adjacencyList["B"] # <<>>
    /\ ~Reachable(adjacencyList, "A", "B")
    /\ call.ret = NoRoute

\* C14: the result find_route returns when no path exists between start and
\* end differs from the result it returns for a valid zero-cost path (the one
\* from start to start).
C14_NoRouteIsDistinct ==
    (/\ AnyRouteCall
     /\ call.start \in DOMAIN adjacencyList
     /\ call.end \in DOMAIN adjacencyList
     /\ ~Reachable(adjacencyList, call.start, call.end))
        => call.ret # findShortestPath(adjacencyList, call.start, call.start,
                                       call.preferredMode)

(***************************************************************************)
(* Claims about top_activities (C15).                                      *)
(***************************************************************************)
\* How many times x occurs in the sequence q.
Occurrences(q, x) == Cardinality({k \in 1..Len(q) : q[k] = x})

SameEntries(q1, q2) ==
    /\ Len(q1) = Len(q2)
    /\ \A x \in Range(q1) \cup Range(q2) : Occurrences(q1, x) = Occurrences(q2, x)

\* The queue entries the loads made: for each destination, its activities.
EntriesOf(dest) ==
    [k \in 1..Len(dest.activities) |->
        [activity |-> dest.activities[k],
         destination |-> dest.name,
         priority |-> dest.popularity + (Len(dest.activities) - (k - 1)) * 2]]

RECURSIVE LoadedEntries(_)
LoadedEntries(data) ==
    IF data = <<>> THEN <<>> ELSE EntriesOf(Head(data)) \o LoadedEntries(Tail(data))

\* The queue as the loads alone leave it.
RECURSIVE HeapOfLoads(_, _)
HeapOfLoads(h, data) ==
    IF data = <<>> THEN h
    ELSE HeapOfLoads(EnqueueActivities(h, Head(data), 1), Tail(data))

LoadedHeap == HeapOfLoads(<<>>, destinationsData)

\* C15: top_activities(count) returns the count highest-priority activities in
\* non-increasing priority order, and after the call, and after any number of
\* such calls, the activity queue holds the same multiset of entries, with the
\* same size, as before.
C15_TopActivitiesRestoresQueue ==
    call.op = "getTopActivities" =>
        LET ret == call.ret
            before == call.before
        IN  /\ Len(ret) = Min(call.count, Len(before))
            /\ \A i \in 1..Len(ret) - 1 : ret[i].priority >= ret[i + 1].priority
            /\ \A x \in Range(before) : Occurrences(ret, x) <= Occurrences(before, x)
            /\ \A x \in Range(before) :
                  Occurrences(ret, x) < Occurrences(before, x)
                      => \A k \in 1..Len(ret) : x.priority <= ret[k].priority
            /\ SameEntries(heap, before)
            /\ Len(heap) = Len(before)
            /\ SameEntries(heap, LoadedEntries(destinationsData))

\* C15's case: a second call, on the queue as the first call left it, with
\* entries of equal priority in the queue and fewer asked for than it holds.
C15_Witness ==
    /\ call.op = "getTopActivities"
    /\ call.count = 2
    /\ Len(call.before) >= 5
    /\ call.before # LoadedHeap
    /\ heap # call.before
    /\ \E i, j \in 1..Len(heap) : i # j /\ heap[i].priority = heap[j].priority

(***************************************************************************)
(* Claims about the optimal-modes lookup (C18).                            *)
(***************************************************************************)
ModesCall == call.op = "getOptimalTransportModes"

ModeOrder == <<"flight", "train", "bus", "car">>

PositionIn(order, mode) == CHOOSE k \in 1..Len(order) : order[k] = mode

\* C18: for every distance >= 0 the lookup returns flight iff distance > 1000,
\* train iff 200 < distance < 1500, bus iff distance < 500 and car iff
\* distance < 300, in that order; the result has between one and three modes,
\* so the truncation to three drops no applicable mode.
C18_OptimalModes ==
    ModesCall =>
        LET d == call.distance
            ret == call.ret
        IN  /\ "flight" \in Range(ret) <=> d > 1000
            /\ "train" \in Range(ret) <=> (200 < d /\ d < 1500)
            /\ "bus" \in Range(ret) <=> d < 500
            /\ "car" \in Range(ret) <=> d < 300
            /\ Range(ret) \subseteq Range(ModeOrder)
            /\ \A i \in 1..Len(ret) - 1 :
                  PositionIn(ModeOrder, ret[i]) < PositionIn(ModeOrder, ret[i + 1])
            /\ Len(ret) >= 1 /\ Len(ret) <= 3

\* C18's case: a distance where three of the four modes apply.
C18_Witness ==
    /\ ModesCall
    /\ call.distance > 200 /\ call.distance < 300
    /\ call.ret = <<"train", "bus", "car">>

(***************************************************************************)
(* Claims about the shortest path (C19).                                   *)
(***************************************************************************)
\* The weight the claim gives an edge, in fifths: 0.8 of the edge's weight
\* when its mode is the preferred one.
ClaimedWeight(e, preferredMode) ==
    IF e.mode = preferredMode THEN 4 * e.weight ELSE 5 * e.weight

\* The least number of a non-empty set of numbers.
Least(S) == CHOOSE x \in S : \A y \in S : x <= y

\* The least total weight of a walk from start to each vertex it reaches, by
\* rounds of relaxing every edge; dist is the set of the pairs (vertex, least
\* weight found so far).
RECURSIVE LeastWeights(_, _, _, _)
LeastWeights(adj, preferredMode, dist, rounds) ==
    IF rounds = 0 THEN dist
    ELSE LET over == UNION {{<<adj[p[1]][k].destination,
                               p[2] + ClaimedWeight(adj[p[1]][k], preferredMode)>> :
                                 k \in 1..Len(adj[p[1]])} :
                            p \in {q \in dist : q[1] \in DOMAIN adj}}
             all == dist \cup over
         IN  LeastWeights(adj, preferredMode,
                          {p \in all : \A q \in all : q[1] = p[1] => p[2] <= q[2]},
                          rounds - 1)

LeastWeight(adj, start, end, preferredMode) ==
    Least({p[2] : p \in {q \in LeastWeights(adj, preferredMode, {<<start, 0>>},
                                            Cardinality(DOMAIN adj)) : q[1] = end}})

\* The edge record a hop was made from.
EdgesOfHop(adj, hop) ==
    {e \in EdgesTo(adj, hop.from, hop.to) : e.mode = hop.mode /\ e.cost = hop.cost}

\* The total claimed weight of a path whose hops are edges of adj.
PathWeight(adj, path, preferredMode) ==
    SumSeq([i \in 1..Len(path) |->
               ClaimedWeight(CHOOSE e \in EdgesOfHop(adj, path[i]) : TRUE, preferredMode)])

IsChain(path, start, end) ==
    /\ path # <<>>
    /\ path[1].from = start
    /\ path[Len(path)].to = end
    /\ \A i \in 1..Len(path) - 1 : path[i].to = path[i + 1].from

\* C19: for every graph with non-negative weights, find_route(start, end,
\* preferred_mode) returns a path from start to end whose total traversal
\* weight (each edge's weight, times 0.8 when its mode is the preferred one) is
\* the least over all paths from start to end.
C19_RouteHasLeastWeight ==
    (AnyRouteCall /\ call.start # call.end
        /\ Reachable(adjacencyList, call.start, call.end))
    => /\ IsChain(call.ret.path, call.start, call.end)
       /\ \A i \in 1..Len(call.ret.path) : EdgesOfHop(adjacencyList, call.ret.path[i]) # {}
       /\ PathWeight(adjacencyList, call.ret.path, call.preferredMode)
            = LeastWeight(adjacencyList, call.start, call.end, call.preferredMode)

\* C19's case: end is first reached over the direct edge and then, before it is
\* dequeued, more lightly over C, which only the preferred mode makes lighter;
\* the entry of the direct edge stays in the queue.
C19_Witness ==
    /\ RouteCall("A", "B") /\ call.preferredMode = "bus"
    /\ Triangle
    /\ Len(call.ret.path) = 2
    /\ TheEdge("A", "B").weight > 0
    /\ adjacencyList["A"][1].destination = "B"
    /\ findShortestPath(adjacencyList, "A", "B", Null).path # call.ret.path

(***************************************************************************)
(* Claims about termination of the shortest-path search (C20).             *)
(***************************************************************************)
\* The walk over the predecessor links is at a vertex it was at before.
Revisits == Running("reconstruct") /\ call.current \in call.visited

WalkAgrees ==
    Running("done") =>
        call.ret = findShortestPath(adjacencyList, call.start, call.end, call.preferredMode)

\* C20: find_shortest_path terminates on every finite graph with non-negative
\* weights (zero-weight edges, parallel edges, self-loops and cycles included):
\* the frontier queue empties or end is dequeued, and the walk over the
\* predecessor links from end reaches a vertex without predecessor without
\* revisiting a vertex.
C20_SearchTerminates ==
    /\ [](~Revisits)
    /\ (Running("loop") ~> Running("reconstruct"))
    /\ (Running("relax") ~> Running("loop"))
    /\ (Running("reconstruct") ~> Running("done"))

\* C20's case: the search has ended on a graph with a zero-weight self-loop at
\* B and a zero-weight edge (a cycle of weight 0 through B), and the walk back
\* from end went over two links through B.
C20_Witness ==
    /\ Running("done")
    /\ Len(call.ret.path) = 2
    /\ \E k \in 1..Len(adjacencyList["B"]) :
          adjacencyList["B"][k].destination = "B" /\ adjacencyList["B"][k].weight = 0
    /\ call.ret.totalCost = 0
    /\ call.visited = {"A", "B", "C"}

(***************************************************************************)
(* Claims about the API service (C16).                                     *)
(***************************************************************************)
\* The lists a search of op for city can give.
ListsOf(op, city) ==
    {Fallback(op, city)} \cup
    {Format(op, body).value : body \in {b \in Bodies(op) : ~Format(op, b).throws}}

\* C16: searchHotels, searchPlaces and searchRestaurants always resolve to a
\* list and never reject; when the remote service is disabled, or a step of the
\* remote call fails (the token fetch, the request, a response that is not OK,
\* the parsing), they resolve to the static fallback list.
C16_SearchesResolve ==
    \A i \in 1..Len(apiService.calls) :
        LET c == apiService.calls[i] IN
        c.pc = "settled" =>
            /\ c.outcome = "resolved"
            /\ c.ret \in ListsOf(c.op, c.city)
            /\ (c.disabled \/ c.failed) => c.ret = Fallback(c.op, c.city)

\* C16's case: a hotel search whose token fetch failed has settled, next to a
\* place search that settled with what the remote service sent.
C16_Witness ==
    \E i, j \in 1..Len(apiService.calls) :
        /\ apiService.calls[i].op = "searchHotels"
        /\ apiService.calls[i].pc = "settled"
        /\ apiService.calls[i].failed
        /\ apiService.cache = NullObject
        /\ apiService.calls[j].op = "searchPlaces"
        /\ apiService.calls[j].pc = "settled"
        /\ Len(apiService.calls[j].ret) = 1

(***************************************************************************)
(* Claims about the segments of the plan (C17).                            *)
(***************************************************************************)
\* The transportation section and the trip summary show the segments.
ShowsSegments ==
    /\ planner.transportationSegments =
           [k \in 1..Len(planner.segments) |-> DatasetId(planner.segments[k].id)]
    /\ IF Len(planner.segments) = 0
       THEN planner.summaryTransportation.hidden
       ELSE planner.summaryTransportation =
                [hidden |-> FALSE,
                 list |-> [k \in 1..Len(planner.segments) |-> planner.segments[k].mode]]

\* C17: after any sequence of Add Segment and Remove Segment actions (also on
\* segments that route optimization and destination selection produced), the
\* plan's segments are exactly those added and not yet removed, each Remove
\* having deleted exactly the segment whose button was used, and the
\* transportation section and the trip summary show that list.
C17_SegmentsFollowActions ==
    call.op \in {"addSegment", "removeSegment"} =>
        /\ Ids(planner.segments) = added
        /\ ShowsSegments

\* A Remove deletes the segment of its card, whatever the page shows then.
RemoveDeletesShownSegment ==
    call.op = "removeSegment" => Ids(planner.segments) = added

(***************************************************************************)
(* Claims about the shape of a returned route (C21).                       *)
(***************************************************************************)
\* C21: whenever find_route returns a non-empty hop sequence, the first hop
\* leaves start, each hop leaves where the previous one arrived, the last hop
\* arrives at end, and every hop's (from, to, mode, cost) is an edge record of
\* the graph.
C21_RouteIsChainOfEdges ==
    (call.op = "findShortestPath" /\ call.ret.path # <<>>)
    => /\ IsChain(call.ret.path, call.start, call.end)
       /\ \A i \in 1..Len(call.ret.path) :
             \E e \in EdgesTo(adjacencyList, call.ret.path[i].from, call.ret.path[i].to) :
                 e.mode = call.ret.path[i].mode /\ e.cost = call.ret.path[i].cost

\* C21's case: a route of two hops of different modes and costs, on a graph
\* that also has a direct edge from start to end.
C21_Witness ==
    /\ call.op = "findShortestPath"
    /\ Len(call.ret.path) = 2
    /\ call.ret.path[1].mode # call.ret.path[2].mode
    /\ call.ret.path[1].cost # call.ret.path[2].cost
    /\ call.ret.path[1].cost > 0 /\ call.ret.path[2].cost > 0
    /\ EdgesTo(adjacencyList, call.start, call.end) # {}

(***************************************************************************)
(* Claims about the heap of the priority queue (C22).                      *)
(***************************************************************************)
\* The index of the parent of index i > 0 (line 94).
ParentIndex(i) == (i - 1) \div 2

\* C22: after every enqueue and dequeue the heap invariant holds: for every
\* index i > 0, compare(heap[parent(i)], heap[i]) <= 0.
C22_HeapInvariant ==
    \A i \in 1..Len(heap) - 1 :
        Compare(compare, heap[ParentIndex(i) + 1], heap[i + 1]) <= 0

\* C22's case: an enqueue has just moved its item from the last index of a
\* heap of three levels up to the root.
C22_Witness ==
    /\ call.op = "enqueue"
    /\ Len(heap) = 4
    /\ heap[1] = call.item
    /\ Compare(compare, heap[1], heap[2]) < 0
    /\ Compare(compare, heap[2], heap[4]) < 0

(***************************************************************************)
(* Claims about the items of the priority queue (C23).                     *)
(***************************************************************************)
\* The items passed to the enqueues made so far, in order.
RECURSIVE ItemsEnqueued(_)
ItemsEnqueued(h) ==
    IF h = <<>> THEN <<>>
    ELSE (IF Head(h).op = "enqueue" THEN <<Head(h).item>> ELSE <<>>)
         \o ItemsEnqueued(Tail(h))

\* The items returned by the dequeues made so far, in order.
RECURSIVE ItemsDequeued(_)
ItemsDequeued(h) ==
    IF h = <<>> THEN <<>>
    ELSE (IF Head(h).op = "dequeue" /\ Head(h).ret # NullObject
          THEN <<Head(h).ret>> ELSE <<>>)
         \o ItemsDequeued(Tail(h))

\* C23: the queue neither loses nor duplicates items: size() is the number of
\* enqueues minus the number of dequeues that returned an item, the items
\* dequeued together with the items still held are, as a multiset, the items
\* enqueued, and a dequeue on an empty queue returns null and leaves the queue
\* empty.
C23_ItemsAreConserved ==
    /\ QueueSize(heap) = Len(ItemsEnqueued(history)) - Len(ItemsDequeued(history))
    /\ SameEntries(ItemsDequeued(history) \o heap, ItemsEnqueued(history))
    /\ \A k \in 1..Len(history) :
          history[k].op = "dequeue" =>
              (history[k].held = 0 <=> history[k].ret = NullObject)
    /\ (call.op = "dequeue" /\ call.held = 0) => heap = <<>>

\* C23's case: a dequeue found the queue empty, items equal in every field
\* were enqueued, an item was dequeued from a heap of three and more, and
\* items are still held.
C23_Witness ==
    /\ \E k \in 1..Len(history) : history[k].op = "dequeue" /\ history[k].held = 0
    /\ \E j, k \in 1..Len(history) :
          /\ j < k
          /\ history[j].op = "enqueue" /\ history[k].op = "enqueue"
          /\ history[j].item = history[k].item
    /\ \E k \in 1..Len(history) : history[k].op = "dequeue" /\ history[k].held >= 3
    /\ Len(heap) >= 2
    /\ Len(ItemsDequeued(history)) >= 1

(***************************************************************************)
(* Claims about the graph as it is built (C24, C25, C26).                  *)
(***************************************************************************)
\* The record that matches record r of the list of u on the list of r's
\* destination.
Mirror(u, r) == [r EXCEPT !.destination = u]

\* C24: after any sequence of add_vertex and add_edge calls the adjacency
\* lists are symmetric: whenever u's list holds a record (to v, w, m, c), v's
\* list holds the record (to u, w, m, c) as many times, and both endpoints of
\* every record are vertices.
C24_ListsAreSymmetric ==
    \A u \in DOMAIN adjacencyList :
        \A k \in 1..Len(adjacencyList[u]) :
            LET r == adjacencyList[u][k]
                v == r.destination
            IN  /\ v \in DOMAIN adjacencyList
                /\ Occurrences(adjacencyList[v], Mirror(u, r))
                     = Occurrences(adjacencyList[u], r)

\* C24's case: the same edge was added twice between two vertices, in one
\* direction and the other, an edge leads from a vertex to itself, and a
\* vertex has no edge.
C24_Witness ==
    /\ DOMAIN adjacencyList = {"A", "B", "C"}
    /\ adjacencyList["C"] = <<>>
    /\ \E k \in 1..Len(adjacencyList["A"]) :
          Occurrences(adjacencyList["A"], adjacencyList["A"][k]) = 2
    /\ \E k \in 1..Len(adjacencyList["B"]) : adjacencyList["B"][k].destination = "B"

\* The rates of the claim, in halves of a currency unit per unit of weight.
ClaimedRate(mode) ==
    CASE mode = "flight" -> 16
      [] mode = "train"  -> 4
      [] mode = "bus"    -> 3
      [] mode = "car"    -> 6
      [] OTHER           -> 10

\* C25: every edge record's cost is rate(mode) x weight, with rate 8 for
\* flight, 2 for train, 1.5 for bus, 3 for car and 5 for every other mode; for
\* a weight that is not negative, neither is the cost.
C25_CostIsRateTimesWeight ==
    \A u \in DOMAIN adjacencyList :
        \A k \in 1..Len(adjacencyList[u]) :
            LET r == adjacencyList[u][k] IN
            /\ r.cost = ClaimedRate(r.mode) * r.weight
            /\ r.weight >= 0 => r.cost >= 0

\* C25 without the modes named like a property of Object.prototype: the
\* cost of every other record is rate(mode) x weight.
C25_OwnModesCostRateTimesWeight ==
    \A u \in DOMAIN adjacencyList :
        \A k \in 1..Len(adjacencyList[u]) :
            LET r == adjacencyList[u][k] IN
            r.mode \notin ObjectPrototypeKeys =>
                /\ r.cost = ClaimedRate(r.mode) * r.weight
                /\ r.weight >= 0 => r.cost >= 0

\* C26: add_vertex is idempotent: called for a vertex that is in the graph, it
\* leaves that vertex's list and every other list as they were.
C26_AddVertexIsIdempotent ==
    (call.op = "addVertex" /\ call.vertex \in DOMAIN call.before)
    => adjacencyList = call.before

\* C26's case: add_vertex was called for a vertex with edges, in a graph
\* with another vertex that has edges.
C26_Witness ==
    /\ call.op = "addVertex"
    /\ call.vertex \in DOMAIN call.before
    /\ Len(call.before[call.vertex]) >= 2
    /\ \E v \in DOMAIN call.before : v # call.vertex /\ Len(call.before[v]) >= 1

(***************************************************************************)
(* Claims about the hash map (C27).                                        *)
(***************************************************************************)
\* The places (bucket, position) of the entries of key k in buckets b.
PlacesOf(b, k) ==
    {p \in UNION {{i} \X (1..Len(b[i])) : i \in DOMAIN b} : b[p[1]][p[2]][1] = k}

\* The keys of the entries of buckets b.
KeysOf(b) == UNION {{b[i][j][1] : j \in 1..Len(b[i])} : i \in DOMAIN b}

\* The bucket of index i of buckets b, empty when there is none.
BucketOf(b, i) == IF i \in DOMAIN b THEN b[i] ELSE <<>>

\* C27: after any sequence of set calls, each lowercased key is in exactly
\* one bucket entry, in the bucket its hash selects; set on a key that is
\* there (in any letter case) replaces the value of its entry and leaves size,
\* set on a new key appends one entry and adds one to size; size is the
\* number of distinct lowercased keys.
C27_StoreKeepsOneEntryPerKey ==
    /\ \A k \in KeysOf(buckets) :
          /\ k = ToLowerCase(k)
          /\ Cardinality(PlacesOf(buckets, k)) = 1
          /\ \A p \in PlacesOf(buckets, k) : p[1] = Hash(k)
    /\ size = Cardinality(KeysOf(buckets))
    /\ call.op = "set" =>
          LET k == ToLowerCase(call.key)
              old == call.before.buckets
              index == Hash(k)
          IN  /\ HashGet(buckets, call.key) = call.value
              /\ \A i \in (DOMAIN old \cup DOMAIN buckets) \ {index} :
                    BucketOf(buckets, i) = BucketOf(old, i)
              /\ IF k \in KeysOf(old)
                 THEN /\ size = call.before.size
                      /\ Len(buckets[index]) = Len(old[index])
                      /\ \A j \in 1..Len(old[index]) :
                            IF old[index][j][1] = k
                            THEN buckets[index][j] = <<k, call.value>>
                            ELSE buckets[index][j] = old[index][j]
                 ELSE /\ size = call.before.size + 1
                      /\ buckets[index] = Append(BucketOf(old, index), <<k, call.value>>)

\* C27's case: a key in upper case is set to a new value when its entry,
\* made under the key in lower case, is the first of a bucket of two.
C27_Witness ==
    /\ call.op = "set"
    /\ call.key = <<"A", "B">>
    /\ Len(BucketOf(call.before.buckets, Hash(<<"a", "b">>))) = 2
    /\ call.before.buckets[Hash(<<"a", "b">>)][1][1] = <<"a", "b">>
    /\ call.before.buckets[Hash(<<"a", "b">>)][1][2] # call.value
    /\ size = 3

(***************************************************************************)
(* Claims about the hash map and the trie together (C28).                  *)
(***************************************************************************)
\* The positions of the entries of a prefix search whose name is name.
EntriesNamed(entries, name) == {k \in 1..Len(entries) : entries[k].name = name}

\* The destination loaded last under the name of the i-th.
LastLoadedAs(i) ==
    destinationsData[CHOOSE j \in 1..Len(destinationsData) :
                        /\ SameName(destinationsData[j].name, destinationsData[i].name)
                        /\ NotOverwritten(j)]

\* C28: after any sequence of loads, each inserting its record into the hash
\* map and the trie, names repeated in any letter case included, for every
\* name N loaded the record the exact lookup of N returns is the record of
\* the entry of search_with_prefix(N) whose name is N in lower case, and it
\* is the record loaded last under that name.
C28_LookupAndPrefixSearchAgree ==
    call = NoCall =>
        \A i \in 1..Len(destinationsData) :
            \A N \in {destinationsData[i].name, ToUpperCase(destinationsData[i].name)} :
                LET found == searchDestination(buckets, N)
                    entries == searchWithPrefix(root, N)
                    named == EntriesNamed(entries, ToLowerCase(N))
                IN  /\ Cardinality(named) = 1
                    /\ \A k \in named : entries[k].data = found
                    /\ found = LastLoadedAs(i)

\* C28's case: a name was loaded twice, in two letter cases and with
\* different records, and another name was loaded.
C28_Witness ==
    /\ call = NoCall
    /\ \E i, j \in 1..Len(destinationsData) :
          /\ i < j
          /\ SameName(destinationsData[i].name, destinationsData[j].name)
          /\ destinationsData[i].name # destinationsData[j].name
          /\ destinationsData[i].cost # destinationsData[j].cost
    /\ \E i, j \in 1..Len(destinationsData) :
          ~SameName(destinationsData[i].name, destinationsData[j].name)

(***************************************************************************)
(* Claims about prefix searches that find nothing (C29).                   *)
(***************************************************************************)
\* The names loaded, in lower case.
LoadedKeys == {ToLowerCase(destinationsData[i].name) : i \in 1..Len(destinationsData)}

\* Some character of p has no matching child on the way down from the root
\* of a trie whose nodes have the paths in nodes.
LeavesTrie(nodes, p) == \E k \in 1..Len(p) : Prefix(p, k) \notin nodes

\* C29: search_with_prefix(P) returns the empty sequence, and creates no trie
\* node, when some character of P has no matching child; otherwise the name
\* of every entry returned is an inserted lowercased key that starts with P
\* in lower case, and each such key is returned exactly once.
C29_PrefixSearchFindsKeysOrNothing ==
    call.op = "searchWithPrefix" =>
        LET p == ToLowerCase(call.prefix) IN
        /\ DOMAIN root = call.nodes
        /\ IF LeavesTrie(call.nodes, p)
           THEN call.ret = <<>>
           ELSE /\ \A k \in 1..Len(call.ret) :
                      call.ret[k].name \in LoadedKeys /\ IsPrefix(p, call.ret[k].name)
                /\ \A key \in LoadedKeys :
                      IsPrefix(p, key) =>
                          Cardinality(EntriesNamed(call.ret, key)) = 1

\* C29's case: the first characters of the prefix have children and its last
\* has none, in a trie that holds the name the prefix starts with.
C29_Witness ==
    /\ call.op = "searchWithPrefix"
    /\ call.prefix = <<"g", "o", "a", "x">>
    /\ <<"g", "o", "a">> \in LoadedKeys
    /\ Len(destinationsData) = 3
    /\ call.ret = <<>>

(***************************************************************************)
(* Claims about the route graph after initialization (C30).                *)
(***************************************************************************)
\* The number of records of the list of u to v of a mode, of a weight whose
\* double is twice.
RecordsTo(u, v, mode, twice) ==
    Cardinality({k \in 1..Len(adjacencyList[u]) :
                    /\ adjacencyList[u][k].destination = v
                    /\ adjacencyList[u][k].mode = mode
                    /\ 2 * adjacencyList[u][k].weight = twice})

\* C30: after initialization every destination name is a vertex of the route
\* graph, and for every two distinct destinations at Haversine distance d the
\* list of each holds exactly three records to the other: flight of weight d,
\* train of weight 1.5 d and car of weight 2 d; so every vertex has
\* 3 x (n - 1) records and every destination is reachable from every other.
C30_GraphIsCompleteInThreeModes ==
    call.op = "initializeDataStructures" =>
        LET n == Len(destinationsData) IN
        /\ \A i \in 1..n : destinationsData[i].name \in DOMAIN adjacencyList
        /\ \A i, j \in 1..n :
              i # j =>
                  LET u == destinationsData[i].name
                      v == destinationsData[j].name
                      d == HaversineKm(destinationsData[i], destinationsData[j])
                  IN  /\ Cardinality(EdgesTo(adjacencyList, u, v)) = 3
                      /\ Cardinality({k \in 1..Len(adjacencyList[u]) :
                                         adjacencyList[u][k].destination = v}) = 3
                      /\ RecordsTo(u, v, "flight", 2 * d) = 1
                      /\ RecordsTo(u, v, "train", 3 * d) = 1
                      /\ RecordsTo(u, v, "car", 4 * d) = 1
                      /\ Reachable(adjacencyList, u, v)
        /\ \A i \in 1..n : Len(adjacencyList[destinationsData[i].name]) = 3 * (n - 1)

\* C30's case: the table has three destinations, and each has six records.
C30_Witness ==
    /\ call.op = "initializeDataStructures"
    /\ Len(destinationsData) = 3
    /\ \A i \in 1..3 : Len(adjacencyList[destinationsData[i].name]) = 6
    /\ size = 3

(***************************************************************************)
(* Claims about the queries after initialization (C31).                    *)
(***************************************************************************)
\* C31: search, get_popular, filter, get_destination and find_route are
\* read-only: no call of them changes the destination list (contents and
\* order), the trie, the hash map or the route graph, so after any sequence
\* of them these are as they were right after initialization.
C31_QueriesAreReadOnly ==
    [][UNCHANGED <<destinationsData, root, buckets, size, adjacencyList>>]_vars

\* C31's case: the most popular destinations were asked for of a table that
\* is not in the order of popularity, and all three came back.
C31_Witness ==
    /\ call.op = "getPopularDestinations"
    /\ Len(call.ret) = 3
    /\ call.ret[1] # destinationsData[1].name
    /\ call.ret[3] # destinationsData[3].name

(***************************************************************************)
(* Claims about routes on the graph of the initializer (C32).              *)
(***************************************************************************)
\* The flight records from start to end.
FlightsTo(adj, start, end) == {e \in EdgesTo(adj, start, end) : e.mode = "flight"}

\* C32: on the initializer's graph (for each pair flight d, train 1.5 d and
\* car 2 d, with distances d > 0 that satisfy the triangle inequality),
\* find_route(start, end, preferred_mode) for distinct destinations returns
\* exactly one hop, the direct flight edge from start to end, whatever the
\* preferred mode (none, flight, train or car).
C32_MeshRouteIsDirectFlight ==
    (call.op = "findShortestPath" /\ call.start # call.end)
    => /\ Len(call.ret.path) = 1
       /\ \E e \in FlightsTo(adjacencyList, call.start, call.end) :
             /\ call.ret.path[1] = [from |-> call.start, to |-> call.end,
                                    mode |-> "flight", cost |-> e.cost]
             /\ call.ret.totalCost = e.cost

\* C32's case: the way over the third destination is as long as the direct
\* one, trains are preferred, and the route is the flight.
C32_Witness ==
    /\ call.op = "findShortestPath" /\ call.start # call.end
    /\ call.preferredMode = "train"
    /\ \E c \in MeshVertices \ {call.start, call.end} :
          \E e \in FlightsTo(adjacencyList, call.start, call.end),
             f \in FlightsTo(adjacencyList, call.start, c),
             g \in FlightsTo(adjacencyList, c, call.end) :
                 f.weight + g.weight = e.weight
    /\ Len(call.ret.path) = 1 /\ call.ret.path[1].mode = "flight"

(***************************************************************************)
(* The two search fields of the planner (src/script.js 122-167, 205-344).  *)
(* The texts are strings of characters, as the catalogue has them.  The    *)
(* planner has ONE flag showSuggestions and ONE list filteredDestinations   *)
(* for both fields (lines 6-7), the Map searchCache, whose entries are kept *)
(* in the order they were set in, the list searchHistory, and the two       *)
(* dropdowns of the page: the class hidden and the items of the content.    *)
(***************************************************************************)
SuggestLimit == 8
maxSearchHistory == 10

SuggestCatalogue == <<[Goa EXCEPT !.id = 1], [Puri EXCEPT !.id = 2], [Pune EXCEPT !.id = 3]>>

\* What is typed into a field.
Texts == {<<>>, <<"p">>, <<"P">>, <<"g">>}

SuggestPlanner ==
    Merged(NewPlanner,
           [origin |-> <<>>, destination |-> <<>>,
            showSuggestions |-> FALSE, filteredDestinations |-> <<>>,
            searchCache |-> <<>>, searchHistory |-> <<>>,
            originSuggestions |-> [hidden |-> TRUE, content |-> <<>>],
            suggestions |-> [hidden |-> TRUE, content |-> <<>>]])

\* searchResults.map(dest => dest.name)
DestNames(results) == [k \in 1..Len(results) |-> results[k].name]

\* Map.has and Map.get of the search cache.
CacheHas(cache, key) == \E k \in 1..Len(cache) : cache[k].key = key
CacheGet(cache, key) == cache[CHOOSE k \in 1..Len(cache) : cache[k].key = key].value

\* One key for every text.
CacheKeyOfAll(text) == <<>>

\* const cacheKey = this.origin.toLowerCase() (lines 211, 284)
CacheKey(text) == ToLowerCase(text)

\* addToSearchHistory (lines 308-322)
addToSearchHistory(searchHistory, query) ==
    LET kept == SelectSeq(searchHistory, LAMBDA q : q # query)
        front == <<query>> \o kept
    IN  IF Len(front) > maxSearchHistory THEN SubSeq(front, 1, Len(front) - 1) ELSE front

\* The body of handleOriginChange and of handleDestinationChange up to the
\* rendering (lines 206-230, 279-303), for the text of the field.
filterSuggestions(p, text, data, t, b) ==
    LET cacheKey == CacheKey(text)
        hit == CacheHas(p.searchCache, cacheKey)
        found == IF hit THEN CacheGet(p.searchCache, cacheKey)
                 ELSE DestNames(searchDestinations(data, t, b, text, SuggestLimit))
    IN  IF Len(text) > 0
        THEN [p EXCEPT !.searchHistory = addToSearchHistory(@, text),
                       !.filteredDestinations = found,
                       !.searchCache = IF hit THEN @
                                       ELSE Append(@, [key |-> cacheKey, value |-> found]),
                       !.showSuggestions = Len(found) > 0]
        ELSE [p EXCEPT !.showSuggestions = FALSE]

\* renderOriginSuggestions (lines 239-259)
renderOriginSuggestions(p) ==
    IF p.showSuggestions /\ Len(p.filteredDestinations) > 0
    THEN [p EXCEPT !.originSuggestions = [hidden |-> FALSE, content |-> p.filteredDestinations]]
    ELSE [p EXCEPT !.originSuggestions.hidden = TRUE]

\* renderSuggestions (lines 324-344)
renderSuggestions(p) ==
    IF p.showSuggestions /\ Len(p.filteredDestinations) > 0
    THEN [p EXCEPT !.suggestions = [hidden |-> FALSE, content |-> p.filteredDestinations]]
    ELSE [p EXCEPT !.suggestions.hidden = TRUE]

\* handleOriginChange (lines 205-237).  Its optimizeTransportRoute returns at
\* distance === 0 (line 546), which calculateDistance gives for every pair of
\* Texts: none is a city of the route graph or a name of the catalogue.
handleOriginChange(p, data, t, b) ==
    updateSummary(renderOriginSuggestions(filterSuggestions(p, p.origin, data, t, b)))

\* handleDestinationChange (lines 278-305)
handleDestinationChange(p, data, t, b) ==
    updateSummary(renderSuggestions(filterSuggestions(p, p.destination, data, t, b)))

\* The listener of focus of the origin field (lines 133-138).
originFocus(p) ==
    IF p.origin # <<>> /\ Len(p.filteredDestinations) > 0
    THEN renderOriginSuggestions([p EXCEPT !.showSuggestions = TRUE])
    ELSE p

\* The listener of focus of the destination field (lines 150-155).
destinationFocus(p) ==
    IF p.destination # <<>> /\ Len(p.filteredDestinations) > 0
    THEN renderSuggestions([p EXCEPT !.showSuggestions = TRUE])
    ELSE p

\* The listener of click of the document (lines 158-167), for a click on the
\* origin field, on the destination field, or elsewhere on the page.
documentClick(p, target) ==
    LET p1 == IF target # "destination"
              THEN renderSuggestions([p EXCEPT !.showSuggestions = FALSE])
              ELSE p
    IN  IF target # "origin"
        THEN renderOriginSuggestions([p1 EXCEPT !.showSuggestions = FALSE])
        ELSE p1

InitSuggest ==
    /\ destinationsData = SuggestCatalogue
    /\ LET loaded == LoadFrom([root |-> NewTrie, buckets |-> EmptyMap, size |-> 0,
                               adjacencyList |-> EmptyMap, heap |-> <<>>],
                              destinationsData, 1)
       IN  /\ root = loaded.root
           /\ buckets = loaded.buckets
           /\ size = loaded.size
           /\ heap = loaded.heap
           /\ adjacencyList = ConnectFrom(loaded.adjacencyList, destinationsData, 0, 1)
    /\ compare = "priorityDesc"
    /\ apiService = NewAPIService(API_CONFIG)
    /\ planner = SuggestPlanner
    /\ now = StartTime
    /\ added = <<>>
    /\ history = <<>>
    /\ caches = NoCaches
    /\ call = NoCall

SuggestUnchanged ==
    UNCHANGED <<heap, compare, adjacencyList, buckets, size, root, destinationsData,
                apiService, now, added, history, caches>>

OriginInput(text) ==
    /\ text # planner.origin
    /\ planner' = handleOriginChange([planner EXCEPT !.origin = text],
                                     destinationsData, root, buckets)
    /\ call' = [op |-> "input", field |-> "origin", text |-> text,
                cached |-> CacheHas(planner.searchCache, CacheKey(text))]
    /\ SuggestUnchanged

DestinationInput(text) ==
    /\ text # planner.destination
    /\ planner' = handleDestinationChange([planner EXCEPT !.destination = text],
                                          destinationsData, root, buckets)
    /\ call' = [op |-> "input", field |-> "destination", text |-> text,
                cached |-> CacheHas(planner.searchCache, CacheKey(text))]
    /\ SuggestUnchanged

OriginFocus ==
    /\ planner' = originFocus(planner)
    /\ call' = [op |-> "focus", field |-> "origin", text |-> planner.origin, cached |-> FALSE]
    /\ SuggestUnchanged

DestinationFocus ==
    /\ planner' = destinationFocus(planner)
    /\ call' = [op |-> "focus", field |-> "destination", text |-> planner.destination,
                cached |-> FALSE]
    /\ SuggestUnchanged

DocumentClick(target) ==
    /\ planner' = documentClick(planner, target)
    /\ call' = [op |-> "click", field |-> target, text |-> <<>>, cached |-> FALSE]
    /\ SuggestUnchanged

NextSuggest ==
    \/ \E text \in Texts : OriginInput(text)
    \/ \E text \in Texts : DestinationInput(text)
    \/ OriginFocus
    \/ DestinationFocus
    \/ \E target \in {"origin", "destination", "page"} : DocumentClick(target)

SpecSuggest == InitSuggest /\ [][NextSuggest]_vars

\* The names searchDestinations gives for a text now, with no cache.
FreshNames(text) ==
    DestNames(searchDestinations(destinationsData, root, buckets, text, SuggestLimit))

\* C34: after any interleaving of input, focus and click events on the two
\* fields, whenever the destination dropdown is shown its items are the names
\* of the search for the current destination text, and whenever the origin
\* dropdown is shown its items are those of the search for the origin text.
C34_DropdownsShowOwnField ==
    /\ ~planner.suggestions.hidden
       => planner.suggestions.content = FreshNames(planner.destination)
    /\ ~planner.originSuggestions.hidden
       => planner.originSuggestions.content = FreshNames(planner.origin)

\* C35: after any sequence of input events on the two fields, the suggestions
\* for a text that is not empty are the names of a fresh search for that
\* text, whether or not its lowercased form was in the search cache.
C35_CachedSuggestionsAreFresh ==
    (call # NoCall /\ call.op = "input" /\ call.text # <<>>)
    => planner.filteredDestinations = FreshNames(call.text)

\* An input was answered from the cache, under a key that is not the text
\* typed, and the answer has names.
C35_Witness ==
    /\ call # NoCall /\ call.op = "input" /\ call.cached
    /\ CacheKey(call.text) # call.text
    /\ planner.filteredDestinations # <<>>

(***************************************************************************)
(* Claims about the real-time loads of the planner (C33).                  *)
(***************************************************************************)
\* A destination was selected while the load of another one was outstanding.
SelectedDuringLoad ==
    \E k \in 1..Len(history) :
        /\ history[k].event = "select"
        /\ history[k].outstanding > 0
        /\ history[k - 1].destName # history[k].destName

\* C33: when the user selects destination A and then destination B before
\* the real-time load of A has completed, then once all outstanding loads
\* have completed, in any order, the accommodation and the activities of the
\* planner are the ones loaded for B, the destination selected last.
C33_LoadsShowLastSelection ==
    (SelectedDuringLoad /\ planner.loading = <<>>)
    => /\ planner.accommodation = AccommodationFor(planner.destination)
       /\ planner.activities = ActivitiesFor(planner.destination)

(***************************************************************************)
(* The activity queue read twice (C36): the queue as initializeData-       *)
(* Structures fills it from three destinations of the catalogue, each with *)
(* its five activities and its popularity (src/destinations.js 376-395,    *)
(* 489-508, 870-889), two of them equally popular.                         *)
(***************************************************************************)
Andaman ==
    [name |-> "Andaman and Nicobar Islands", popularity |-> 85,
     activities |-> <<"Snorkeling and scuba diving at Havelock Island",
                      "Visit Cellular Jail National Memorial",
                      "Explore Radhanagar Beach",
                      "Go island hopping to Neil Island",
                      "Experience glass bottom boat rides">>]
Udaipur ==
    [name |-> "Udaipur", popularity |-> 87,
     activities |-> <<"Take boat ride on Lake Pichola",
                      "Visit City Palace complex",
                      "Explore Saheliyon Ki Bari gardens",
                      "Watch sunset from Sajjangarh Palace",
                      "Shopping at local handicraft markets">>]
Bangalore ==
    [name |-> "Bangalore", popularity |-> 87,
     activities |-> <<"Explore Lalbagh Botanical Garden",
                      "Visit Bangalore Palace",
                      "Experience pub culture on Brigade Road",
                      "Shop at Commercial Street",
                      "Day trip to Nandi Hills">>]

RepeatPool == {Andaman, Udaipur, Bangalore}

\* The catalogues read: the destinations of the pool, some or all, in any order.
RepeatTables ==
    UNION {{t \in [1..n -> RepeatPool] : \A i, j \in 1..n : i # j => t[i] # t[j]} :
              n \in 1..Cardinality(RepeatPool)}

\* The counts asked for: none, some, the default, all.
RepeatCounts == {0, 3, 5, 15}

\* destinationsData.forEach of initializeDataStructures (lines 1213-1231), as
\* far as the activity queue goes.
RECURSIVE QueueFrom(_, _, _)
QueueFrom(h, data, k) ==
    IF k > Len(data) THEN h
    ELSE QueueFrom(EnqueueActivities(h, data[k], 1), data, k + 1)

InitRepeat ==
    /\ destinationsData \in RepeatTables
    /\ heap = QueueFrom(<<>>, destinationsData, 1)
    /\ compare = "priorityDesc"
    /\ root = NewTrie
    /\ buckets = EmptyMap /\ size = 0
    /\ adjacencyList = EmptyMap
    /\ IdleApp
    /\ call = NoCall

NextRepeat ==
    \/ \E count \in RepeatCounts : TopActivities(count)
    \/ Return

SpecRepeat == InitRepeat /\ [][NextRepeat]_vars

\* C36: getTopActivities is deterministic: a second call with the same count,
\* with nothing done to the queue in between, returns the same sequence as
\* the first, the order of the activities of equal priority included.
C36_TopActivitiesRepeat ==
    (call # NoCall /\ call.op = "getTopActivities")
    => getTopActivities(heap, call.count).ret = call.ret

(***************************************************************************)
(* The trip of the planner: the totals shown, and the stack of              *)
(* recommendations (src/script.js 346-406, 511-562, 990-1037).  The segments *)
(* optimizeTransportRoute makes carry distance, estimatedCost and           *)
(* estimatedTime; the others have no such fields.  stats is what the        *)
(* elements totalDistance, totalCost and totalTime show: the numbers their  *)
(* texts are made of.                                                       *)
(***************************************************************************)
MaxStack == 2      \* entries on the stack of recommendations
MaxPending == 1    \* real-time loads outstanding at once

TripOrigins == {"Delhi"}
TripDestinations == {"Jaipur", "Agra"}

TripPlanner ==
    Merged(LoadingPlanner,
           [recommendationStack |-> <<>>,
            stats |-> [totalDistance |-> 0, totalCost |-> 0, totalTime |-> 0]])

\* initializeTransportCosts (lines 49-58): costPerKm in halves of a rupee,
\* timePerKm in tenths of an hour.
transportCosts(mode) ==
    CASE mode = "flight" -> [costPerKm |-> 16, baseCost |-> 2000, timePerKm |-> 1]
      [] mode = "train"  -> [costPerKm |-> 4,  baseCost |-> 200,  timePerKm |-> 8]
      [] mode = "bus"    -> [costPerKm |-> 3,  baseCost |-> 100,  timePerKm |-> 12]
      [] mode = "car"    -> [costPerKm |-> 24, baseCost |-> 0,    timePerKm |-> 6]

\* calculateTransportCost (lines 804-809), with Math.round
calculateTransportCost(mode, distance) ==
    transportCosts(mode).baseCost + (transportCosts(mode).costPerKm * distance + 1) \div 2

\* calculateTransportTime (lines 811-816), with Math.round
calculateTransportTime(mode, distance) ==
    (transportCosts(mode).timePerKm * distance + 5) \div 10

\* segment.distance || 0, and so on, added up over the segments.
RECURSIVE SumOver(_, _)
SumOver(segments, field) ==
    IF segments = <<>> THEN 0
    ELSE (IF field \in DOMAIN Head(segments) THEN Head(segments)[field] ELSE 0)
         + SumOver(Tail(segments), field)

\* updateTransportStats (lines 511-530)
updateTransportStats(p) ==
    [p EXCEPT !.stats = [totalDistance |-> SumOver(p.segments, "distance"),
                         totalCost |-> SumOver(p.segments, "estimatedCost"),
                         totalTime |-> SumOver(p.segments, "estimatedTime")]]

\* optimizeTransportRoute (lines 533-562) with the figures of its segments
\* and the totals; its branch of the origin alone is never taken, every call
\* of it being made with origin and destination set (lines 198, 234, 271, 373).
optimizeRouteWithStats(p) ==
    LET distance == calculateDistance(p.origin, p.destination)
        q == optimizeTransportRoute(p)
        figures(seg) == [distance |-> distance,
                         estimatedCost |-> calculateTransportCost(seg.mode, distance),
                         estimatedTime |-> calculateTransportTime(seg.mode, distance)]
    IN  IF p.origin = "" \/ p.destination = "" \/ distance = 0 THEN p
        ELSE updateTransportStats(
                 [q EXCEPT !.segments =
                     [k \in 1..Len(@) |-> Merged(@[k], figures(@[k]))]])

\* handleOriginSelect (lines 261-276)
tripOriginSelect(p, originName) ==
    LET p1 == [p EXCEPT !.origin = originName]
        p2 == IF p1.destination # "" THEN optimizeRouteWithStats(p1) ELSE p1
    IN  updateSummary(p2)

\* handleDestinationSelect (lines 346-406), with the push on the stack of
\* recommendations and the start of the real-time load.
tripDestinationSelect(p, destName, time) ==
    LET p1 == [p EXCEPT !.destination = destName]
        p2 == [p1 EXCEPT !.recommendationStack =
                  Append(@, [destination |-> destName,
                             accommodation |-> p1.accommodation,
                             activities |-> p1.activities,
                             segments |-> p1.segments,
                             timestamp |-> time])]
        p3 == loadRealTimeData(p2, destName)
        p4 == IF p3.origin # "" THEN optimizeRouteWithStats(p3) ELSE p3
        routes == optimizeTransportationRoutes(Transportation(destName), time)
        p5 == [p4 EXCEPT !.segments =
                  [k \in 1..Len(routes) |-> [routes[k] EXCEPT !.from = ""]]]
    IN  IF KnownDestination(destName)
        THEN updateSummary(updateTransportationSection(p5))
        ELSE updateSummary(p1)

\* undoLastRecommendation (lines 991-1009)
undoLastRecommendation(p) ==
    IF Len(p.recommendationStack) > 0
    THEN LET lastState == p.recommendationStack[Len(p.recommendationStack)]
         IN  updateSummary(updateTransportationSection(
                 [p EXCEPT !.recommendationStack = SubSeq(@, 1, Len(@) - 1),
                           !.destination = lastState.destination,
                           !.accommodation = lastState.accommodation,
                           !.activities = lastState.activities,
                           !.segments = lastState.segments]))
    ELSE p

InitTrip ==
    /\ planner = TripPlanner
    /\ apiService = NewAPIService(API_CONFIG)
    /\ now = StartTime
    /\ added = <<>>
    /\ history = <<>>
    /\ caches = NoCaches
    /\ IdleQueue /\ IdleGraph /\ IdleStore /\ IdleData
    /\ call = NoCall

TripUnchanged ==
    UNCHANGED <<heap, compare, adjacencyList, buckets, size, root, destinationsData,
                apiService, now, added, history, caches>>

\* The text of the origin field is typed (lines 128-131, 205-237).
TripOriginInput(text) ==
    /\ planner.segmentCounter < MaxCounter
    /\ planner' = LET p1 == updateSummary([planner EXCEPT !.origin = text])
                  IN  IF p1.destination # "" THEN optimizeRouteWithStats(p1) ELSE p1
    /\ call' = [op |-> "handleOriginChange"]
    /\ TripUnchanged

\* The text of the destination field is typed (lines 145-148, 278-305).
TripDestinationInput(text) ==
    /\ planner' = updateSummary([planner EXCEPT !.destination = text])
    /\ call' = [op |-> "handleDestinationChange"]
    /\ TripUnchanged

TripSelectOrigin(originName) ==
    /\ planner.segmentCounter < MaxCounter
    /\ planner' = tripOriginSelect(planner, originName)
    /\ call' = [op |-> "handleOriginSelect"]
    /\ TripUnchanged

TripSelectDestination(destName, depth) ==
    /\ planner.segmentCounter < MaxCounter
    /\ Len(planner.recommendationStack) < depth
    /\ Len(planner.loading) < MaxPending
    /\ planner' = tripDestinationSelect(planner, destName, now)
    /\ call' = [op |-> "handleDestinationSelect", before |-> planner, afterSelect |-> FALSE]
    /\ TripUnchanged

TripLoadSettles(k) ==
    /\ k \in 1..Len(planner.loading)
    /\ planner' = loadSettled(planner, k)
    /\ call' = [op |-> "loadRealTimeData"]
    /\ TripUnchanged

TripChangeOptimizationMode ==
    /\ planner.segmentCounter < MaxCounter
    /\ planner' = IF planner.origin # "" /\ planner.destination # ""
                  THEN optimizeRouteWithStats(planner) ELSE planner
    /\ call' = [op |-> "optimizationMode"]
    /\ TripUnchanged

TripAddSegment ==
    /\ Len(planner.segments) < MaxSegments
    /\ \A k \in 1..Len(planner.segments) : planner.segments[k].id # TimeId(now)
    /\ planner' = addSegment(planner, now)
    /\ call' = [op |-> "addSegment"]
    /\ TripUnchanged

TripRemove(k) ==
    /\ k \in 1..Len(planner.transportationSegments)
    /\ planner' = removeSegment(planner, planner.transportationSegments[k])
    /\ call' = [op |-> "removeSegment"]
    /\ TripUnchanged

TripChangeMode(k, mode) ==
    /\ k \in 1..Len(planner.transportationSegments)
    /\ planner' = updateTransportationSection(
                      updateSegment(planner, planner.transportationSegments[k],
                                    "mode", mode))
    /\ call' = [op |-> "updateSegment"]
    /\ TripUnchanged

\* Ctrl+Z (lines 1396-1402).  The call keeps the planner as it was before the
\* selection this undo follows at once, if it follows one.
TripUndo ==
    /\ planner' = undoLastRecommendation(planner)
    /\ call' = [op |-> "undoLastRecommendation",
                before |-> planner,
                afterSelect |-> (call # NoCall /\ call.op = "handleDestinationSelect"),
                prior |-> IF call # NoCall /\ call.op = "handleDestinationSelect"
                          THEN call.before ELSE planner]
    /\ TripUnchanged

\* Every event of the trip, with one recommendation to undo.
NextTrip ==
    \/ \E text \in {"", "Delhi"} : TripOriginInput(text)
    \/ \E text \in {"", "Jaipur"} : TripDestinationInput(text)
    \/ \E originName \in TripOrigins : TripSelectOrigin(originName)
    \/ \E destName \in {"Jaipur"} : TripSelectDestination(destName, 1)
    \/ \E k \in 1..MaxPending : TripLoadSettles(k)
    \/ TripChangeOptimizationMode
    \/ TripAddSegment
    \/ \E k \in 1..MaxSegments : TripRemove(k)
    \/ \E k \in 1..MaxSegments : TripChangeMode(k, "bus")
    \/ TripUndo

SpecTrip == InitTrip /\ [][NextTrip]_vars

\* Selections, loads and undos, with MaxStack recommendations to undo.
NextUndo ==
    \/ \E originName \in TripOrigins : TripSelectOrigin(originName)
    \/ \E destName \in TripDestinations : TripSelectDestination(destName, MaxStack)
    \/ \E k \in 1..MaxPending : TripLoadSettles(k)
    \/ TripUndo

SpecUndo == InitTrip /\ [][NextUndo]_vars

\* C37: after any sequence of planner events (origin or destination input,
\* destination selection, change of the optimization mode, adding, updating
\* or removing a segment, undo), the total distance, cost and time shown are
\* the sums of distance, estimatedCost and estimatedTime over the current
\* segments.
C37_TotalsAreSumsOverSegments ==
    /\ planner.stats.totalDistance = SumOver(planner.segments, "distance")
    /\ planner.stats.totalCost = SumOver(planner.segments, "estimatedCost")
    /\ planner.stats.totalTime = SumOver(planner.segments, "estimatedTime")

\* C38: after the selection of a destination d1 and then of a destination
\* d2, one undo makes the destination, the accommodation, the activities and
\* the segments what they were immediately before d2 was selected and shrinks
\* the stack by one entry; an undo on an empty stack changes nothing.
C38_UndoRestoresPreviousState ==
    (call # NoCall /\ call.op = "undoLastRecommendation")
    => /\ (call.afterSelect /\ call.prior.recommendationStack # <<>>)
          => /\ planner.destination = call.prior.destination
             /\ planner.accommodation = call.prior.accommodation
             /\ planner.activities = call.prior.activities
             /\ planner.segments = call.prior.segments
             /\ Len(planner.recommendationStack) = Len(call.before.recommendationStack) - 1
       /\ call.before.recommendationStack = <<>> => planner = call.before

(***************************************************************************)
(* The two bounded caches of src/script.js (lines 1221-1284).  A cache is   *)
(* the sequence of its entries in the order they were set in, which is the  *)
(* order Map.keys() gives them in.  The caches are followed from empty and  *)
(* from the states that many calls with as many different arguments leave:  *)
(* one entry short of the limit, and at the limit.                          *)
(***************************************************************************)
QueryCacheLimit == 100
maxCacheSize == 50
DefaultLimit == 10

CacheCatalogue ==
    <<[Goa EXCEPT !.id = 1], [BodhGaya EXCEPT !.id = 2], [Puri EXCEPT !.id = 3]>>

\* The k-th of the queries that filled the query cache: q and two letters.
FillerQuery(k) ==
    <<"q", LowerCase[((k - 1) \div Len(LowerCase)) + 1], LowerCase[((k - 1) % Len(LowerCase)) + 1]>>

\* The k-th of the names that filled the destination cache: bodh gaya, the
\* i-th of its letters in upper case when the i-th binary digit of k is 1.
FillerName(k) ==
    LET name == ToLowerCase(BodhGaya.name)
        letters(i) == Cardinality({j \in 1..i : name[j] \in Range(LowerCase)})
        digit(i) == (k \div (2 ^ (letters(i) - 1))) % 2
    IN  [i \in 1..Len(name) |->
            IF name[i] \in Range(LowerCase) /\ digit(i) = 1
            THEN UpperCase[IndexIn(LowerCase, name[i])]
            ELSE name[i]]

CacheKeys(cache) == [k \in 1..Len(cache) |-> cache[k].key]

\* enhancedSearch deleting the last key of the Map, not the first.
enhancedSearchEvictsNewest(cache, query, useCache, data, t, b) ==
    IF useCache /\ CacheHas(cache, query)
    THEN [ret |-> CacheGet(cache, query), cache |-> cache]
    ELSE LET results == searchDestinations(data, t, b, query, DefaultLimit)
             set == Append(cache, [key |-> query, value |-> results])
         IN  [ret |-> results,
              cache |-> IF ~useCache THEN cache
                        ELSE IF Len(set) > QueryCacheLimit
                             THEN SubSeq(set, 1, Len(set) - 1) ELSE set]

\* enhancedSearch (lines 1223-1241)
enhancedSearch(cache, query, useCache, data, t, b) ==
    IF useCache /\ CacheHas(cache, query)
    THEN [ret |-> CacheGet(cache, query), cache |-> cache]
    ELSE LET results == searchDestinations(data, t, b, query, DefaultLimit)
             set == Append(cache, [key |-> query, value |-> results])
         IN  [ret |-> results,
              cache |-> IF ~useCache THEN cache
                        ELSE IF Len(set) > QueryCacheLimit THEN Tail(set) ELSE set]

\* getCachedDestination (lines 1265-1284)
getCachedDestination(cache, name, b) ==
    IF CacheHas(cache, name)
    THEN [ret |-> CacheGet(cache, name), cache |-> cache]
    ELSE LET destination == searchDestination(b, name)
             set == Append(cache, [key |-> name, value |-> destination])
         IN  [ret |-> destination,
              cache |-> IF destination = NullObject THEN cache
                        ELSE IF Len(set) > maxCacheSize THEN Tail(set) ELSE set]

\* The query cache after enhancedSearch was called with the first n filler
\* queries, in order, and the destination cache after getCachedDestination
\* was called with the first m filler names: each call missed and set its
\* entry, and none evicted, n and m being no more than the limits.
SearchesDone(n, data, t, b) ==
    [k \in 1..n |-> [key |-> FillerQuery(k),
                     value |-> searchDestinations(data, t, b, FillerQuery(k), DefaultLimit)]]

LookupsDone(m, b) ==
    [k \in 1..m |-> [key |-> FillerName(k), value |-> searchDestination(b, FillerName(k))]]

InitCaches ==
    /\ destinationsData = CacheCatalogue
    /\ LET loaded == LoadFrom([root |-> NewTrie, buckets |-> EmptyMap, size |-> 0,
                               adjacencyList |-> EmptyMap, heap |-> <<>>],
                              destinationsData, 1)
       IN  /\ root = loaded.root
           /\ buckets = loaded.buckets
           /\ size = loaded.size
           /\ heap = loaded.heap
           /\ adjacencyList = ConnectFrom(loaded.adjacencyList, destinationsData, 0, 1)
    /\ compare = "priorityDesc"
    /\ apiService = NewAPIService(API_CONFIG)
    /\ planner = NewPlanner
    /\ now = StartTime
    /\ added = <<>>
    /\ history = <<>>
    /\ \E n \in {0, QueryCacheLimit - 1, QueryCacheLimit},
          m \in {0, maxCacheSize - 1, maxCacheSize} :
          caches = [searchCache |-> SearchesDone(n, destinationsData, root, buckets),
                    destinationCache |-> LookupsDone(m, buckets)]
    /\ call = NoCall

CachesUnchanged ==
    UNCHANGED <<heap, compare, adjacencyList, buckets, size, root, destinationsData,
                apiService, planner, now, added, history>>

CacheQueries == {<<"g">>, <<"G">>, FillerQuery(1)}
CachedNames == {<<"G", "o", "a">>, <<"D", "e", "l", "h", "i">>, FillerName(1)}

EnhancedSearch(query, useCache) ==
    LET out == enhancedSearch(caches.searchCache, query, useCache,
                              destinationsData, root, buckets) IN
    /\ caches' = [caches EXCEPT !.searchCache = out.cache]
    /\ call' = [op |-> "enhancedSearch", key |-> query, useCache |-> useCache,
                ret |-> out.ret, before |-> CacheKeys(caches.searchCache)]
    /\ CachesUnchanged

GetCachedDestination(name) ==
    LET out == getCachedDestination(caches.destinationCache, name, buckets) IN
    /\ caches' = [caches EXCEPT !.destinationCache = out.cache]
    /\ call' = [op |-> "getCachedDestination", key |-> name, useCache |-> TRUE,
                ret |-> out.ret, before |-> CacheKeys(caches.destinationCache)]
    /\ CachesUnchanged

NextCaches ==
    \/ \E query \in CacheQueries, useCache \in BOOLEAN : EnhancedSearch(query, useCache)
    \/ \E name \in CachedNames : GetCachedDestination(name)

SpecCaches == InitCaches /\ [][NextCaches]_vars

\* The keys of before that are no keys of after.
Evicted(before, after) ==
    {k \in 1..Len(before) : \A j \in 1..Len(after) : after[j] # before[k]}

\* C39: after any calls of enhancedSearch the query cache has at most 100
\* entries, and after any calls of getCachedDestination the destination cache
\* has at most 50; the entry a call evicts is the one set earliest and never
\* the one the call has just set; and what a call returns, cached or not, is
\* what the lookup without the cache gives.
C39_CachesAreBoundedAndFaithful ==
    /\ Len(caches.searchCache) <= QueryCacheLimit
    /\ Len(caches.destinationCache) <= maxCacheSize
    /\ (call # NoCall /\ call.op = "enhancedSearch")
       => /\ call.ret = searchDestinations(destinationsData, root, buckets,
                                           call.key, DefaultLimit)
          /\ Evicted(call.before, CacheKeys(caches.searchCache)) \subseteq {1}
          /\ call.useCache => CacheHas(caches.searchCache, call.key)
    /\ (call # NoCall /\ call.op = "getCachedDestination")
       => /\ call.ret = searchDestination(buckets, call.key)
          /\ Evicted(call.before, CacheKeys(caches.destinationCache)) \subseteq {1}
          /\ call.ret # NullObject => CacheHas(caches.destinationCache, call.key)

\* A lookup has just evicted the earliest name from the full destination
\* cache, and the query cache, full, has lost its earliest query before.
C39_Witness ==
    /\ call # NoCall /\ call.op = "getCachedDestination"
    /\ Len(call.before) = maxCacheSize
    /\ Evicted(call.before, CacheKeys(caches.destinationCache)) = {1}
    /\ Len(caches.searchCache) = QueryCacheLimit
    /\ caches.searchCache[1].key # FillerQuery(1)

=============================================================================
